---- MODULE Spec2Model ----
(***************************************************************************)
(* A model of the FileCompression codec and container layer: the Huffman,  *)
(* RLE and LZ77 whole-file codecs, the worker-pool driver, the progressive *)
(* container, the split-archive wrapper, the deduplication filter and the  *)
(* dispatch of main.  Files are sequences of bytes (0..255); a path that   *)
(* does not exist holds NoFile.                                            *)
(***************************************************************************)
EXTENDS Integers, Sequences, FiniteSets, TLC

VARIABLES
    \* one job: in_file is compressed to packed_file, packed_file is
    \* decompressed to out_file
    algorithm,      \* index of the codec in the algorithms table
    opt_goal,       \* the process-wide optimization goal
    in_file,        \* bytes of the input file
    packed_file,    \* bytes of the compressed file, NoFile when not created
    out_file,       \* bytes of the decompressed file, NoFile when not created
    result_c,       \* return value of the compress function
    result_d,       \* return value of the decompress function
    stage,          \* how far the job has got
    \* the worker-pool driver
    thread_count,   \* static thread_count of compression.c
    num_cores,      \* what sysconf(_SC_NPROCESSORS_ONLN) answers
    chunks,         \* the ChunkInfo array, with each worker's position and files
    batch,          \* current_chunk and current_batch_size of the decompress loop
    io_fault,       \* TRUE once a worker's fopen has failed
    \* the progressive container
    fs,             \* the files of the working directory, by name
    prog,           \* the container name and block range of the command line
    \* the split archive
    parts,          \* the part files, parts[k] is <base>.part<k>
    max_part_size,  \* the -M argument
    \* deduplication
    dedup_chunk_size,   \* the -C argument
    current_chunk_size, \* static current_chunk_size of deduplication.c
    hash_table,         \* static hash_table of deduplication.c
    dedup_stream,       \* the deduplicated stream before the optional codec
    \* main
    cmd,            \* the flags of the parsed command line
    result,         \* result of main: what the selected operation returned
    op_ok,          \* TRUE when the selected operation ran and succeeded
    exit_code,      \* the exit status of the process
    encryption_key, \* the key handed to encrypt_file and decrypt_file, as bytes:
                    \* static encryption_key of filecompressor.c
    \* large files
    lf,             \* the chunked reader and the streaming decoder with their buffers
    \* the file-scope parameters of the codecs
    codec_globals   \* MAX_TREE_DEPTH of huffman.c, WINDOW_SIZE, LOOKAHEAD_SIZE and
                    \* MIN_MATCH of lz77.c, and the threads that have stored to them

codecVars == <<algorithm, opt_goal, in_file, packed_file, out_file, result_c, result_d, stage>>
parallelVars == <<thread_count, num_cores, chunks, batch, io_fault>>
progressiveVars == <<fs, prog>>
splitVars == <<parts, max_part_size>>
dedupVars == <<dedup_chunk_size, current_chunk_size, hash_table, dedup_stream>>
mainVars == <<cmd, result, op_ok, exit_code, encryption_key>>
largeVars == <<lf>>
globalVars == <<codec_globals>>
vars == <<codecVars, parallelVars, progressiveVars, splitVars, dedupVars, mainVars, largeVars,
          globalVars>>
\* what the actions of one subsystem leave alone, besides codecVars
notCodecVars == <<parallelVars, progressiveVars, splitVars, dedupVars, mainVars, largeVars,
    globalVars>>
notParallelVars == <<progressiveVars, splitVars, dedupVars, mainVars, largeVars,
    globalVars>>
notProgressiveVars == <<parallelVars, splitVars, dedupVars, mainVars, largeVars,
    globalVars>>
notSplitVars == <<parallelVars, progressiveVars, dedupVars, mainVars, largeVars,
    globalVars>>
notDedupVars == <<parallelVars, progressiveVars, splitVars, mainVars, largeVars,
    globalVars>>
notMainVars == <<parallelVars, progressiveVars, splitVars, dedupVars, largeVars,
    globalVars>>
notLargeVars == <<parallelVars, progressiveVars, splitVars, dedupVars, mainVars,
    globalVars>>

\* ------------------------------------------------------------------ bounds
\* Input bytes are drawn from 0..MaxByte, inputs have 1..MaxLen bytes.
MaxByte == 1
MaxLen == 4

Alphabet == 0..MaxByte
Byte == 0..255

RECURSIVE SeqsUpTo(_, _)
SeqsUpTo(S, n) ==
    IF n = 0 THEN {<<>>}
    ELSE LET shorter == SeqsUpTo(S, n - 1)
         IN shorter \cup {Append(s, x) : s \in {t \in shorter : Len(t) = n - 1}, x \in S}

Inputs == {s \in SeqsUpTo(Alphabet, MaxLen) : Len(s) >= 1}

NoFile == <<-1>>

Min(a, b) == IF a < b THEN a ELSE b

\* ---------------------------------------------------------- byte encodings
\* fwrite(&v, sizeof(long), 1, f) on a little-endian 64-bit build
RECURSIVE LEBytes(_, _)
LEBytes(v, n) == IF n = 0 THEN <<>> ELSE <<v % 256>> \o LEBytes(v \div 256, n - 1)

RECURSIVE LEValue(_)
LEValue(bs) == IF bs = <<>> THEN 0 ELSE Head(bs) + 256 * LEValue(Tail(bs))

SizeofLong == 8
SizeofInt == 4

Drop(s, n) == IF n >= Len(s) THEN <<>> ELSE SubSeq(s, n + 1, Len(s))
Take(s, n) == IF n >= Len(s) THEN s ELSE SubSeq(s, 1, n)

\* ------------------------------------------------------ optimization goal
OPT_NONE == "OPT_NONE"
OPT_SPEED == "OPT_SPEED"
OPT_SIZE == "OPT_SIZE"
OptimizationGoal == {OPT_NONE, OPT_SPEED, OPT_SIZE}

DEFAULT_MAX_TREE_DEPTH == 256
SPEED_MAX_TREE_DEPTH == 32
SIZE_MAX_TREE_DEPTH == 512

\* set_huffman_optimization: the value MAX_TREE_DEPTH holds after the call
set_huffman_optimization(goal) ==
    CASE goal = OPT_SPEED -> SPEED_MAX_TREE_DEPTH
      [] goal = OPT_SIZE -> SIZE_MAX_TREE_DEPTH
      [] OTHER -> DEFAULT_MAX_TREE_DEPTH

\* ----------------------------------------------------------------- Huffman
\* The tree is an arena of Node records; a child of 0 is the NULL pointer.
DollarChar == 36

create_node(character, frequency) ==
    [character |-> character, frequency |-> frequency, left |-> 0, right |-> 0]

\* The heap array is 0-based in the source: slot i is arr[i + 1] here.
swap_nodes(arr, a, b) == [arr EXCEPT ![a + 1] = arr[b + 1], ![b + 1] = arr[a + 1]]

RECURSIVE min_heapify(_, _, _, _)
min_heapify(nodes, arr, size, idx) ==
    LET left == 2 * idx + 1
        right == 2 * idx + 2
        s1 == IF left < size /\ nodes[arr[left + 1]].frequency < nodes[arr[idx + 1]].frequency
              THEN left ELSE idx
        s2 == IF right < size /\ nodes[arr[right + 1]].frequency < nodes[arr[s1 + 1]].frequency
              THEN right ELSE s1
    IN IF s2 # idx THEN min_heapify(nodes, swap_nodes(arr, s2, idx), size, s2) ELSE arr

\* extract_min: the node taken and the heap left (its live slots only)
extract_min(nodes, arr) ==
    LET size == Len(arr)
        moved == [arr EXCEPT ![1] = arr[size]]
        shrunk == SubSeq(moved, 1, size - 1)
    IN [node |-> arr[1],
        arr |-> IF size - 1 = 0 THEN <<>> ELSE min_heapify(nodes, shrunk, size - 1, 0)]

RECURSIVE SiftUp(_, _, _, _)
SiftUp(nodes, arr, i, node) ==
    IF i # 0 /\ nodes[node].frequency < nodes[arr[((i - 1) \div 2) + 1]].frequency
    THEN SiftUp(nodes, [arr EXCEPT ![i + 1] = arr[((i - 1) \div 2) + 1]], (i - 1) \div 2, node)
    ELSE [arr EXCEPT ![i + 1] = node]

insert_min_heap(nodes, arr, node) == SiftUp(nodes, Append(arr, node), Len(arr), node)

RECURSIVE HeapifyDown(_, _, _)
HeapifyDown(nodes, arr, i) ==
    IF i < 0 THEN arr ELSE HeapifyDown(nodes, min_heapify(nodes, arr, Len(arr), i), i - 1)

\* C division truncates toward zero: (n - 1) / 2 is 0 when n = 0.
build_min_heap(nodes, arr) ==
    LET n == Len(arr) - 1
        start == IF n - 1 < 0 THEN 0 ELSE (n - 1) \div 2
    IN HeapifyDown(nodes, arr, start)

CountOf(data, c) == Cardinality({i \in 1..Len(data) : data[i] = c})

BytesOf(data) == {data[i] : i \in 1..Len(data)}

SetMin(S) == CHOOSE x \in S : \A y \in S : x <= y

\* the leaves in the order of the loop over i = 0..MAX_CHAR-1: increasing
\* byte value, only the bytes whose frequency is not 0
RECURSIVE LeafNodes(_, _)
LeafNodes(data, present) ==
    IF present = {} THEN <<>>
    ELSE LET c == SetMin(present)
         IN <<create_node(c, CountOf(data, c))>> \o LeafNodes(data, present \ {c})

RECURSIVE MergeLoop(_, _)
MergeLoop(nodes, arr) ==
    IF Len(arr) = 1 THEN [nodes |-> nodes, arr |-> arr]
    ELSE LET e1 == extract_min(nodes, arr)
             e2 == extract_min(nodes, e1.arr)
             top == [create_node(DollarChar,
                                 nodes[e1.node].frequency + nodes[e2.node].frequency)
                     EXCEPT !.left = e1.node, !.right = e2.node]
             nodes2 == Append(nodes, top)
         IN MergeLoop(nodes2, insert_min_heap(nodes2, e2.arr, Len(nodes2)))

RECURSIVE Iota(_)
Iota(n) == IF n = 0 THEN <<>> ELSE Append(Iota(n - 1), n)

\* build_huffman_tree on non-empty data: the arena and the index of the root
build_huffman_tree(data) ==
    LET leaves == LeafNodes(data, BytesOf(data))
        arr0 == Iota(Len(leaves))
        heap == build_min_heap(leaves, arr0)
        done == MergeLoop(leaves, heap)
    IN [nodes |-> done.nodes, root |-> done.arr[1]]

\* HuffmanCode codes[MAX_CHAR] = {{{0}, 0}}: every code_len starts at 0
NoCodes == [c \in Byte |-> <<>>]

\* generate_codes: codes[c] is the bit sequence stored for character c
\* (code_len is its length); maxDepth is MAX_TREE_DEPTH.
RECURSIVE generate_codes(_, _, _, _, _)
generate_codes(nodes, root, code, codes, maxDepth) ==
    LET top == Len(code)
        n == nodes[root]
        afterLeft ==
            IF n.left # 0
            THEN IF top < maxDepth - 1
                 THEN generate_codes(nodes, n.left, Append(code, 0), codes, maxDepth)
                 ELSE [codes EXCEPT ![n.character] = code]
            ELSE codes
        afterRight ==
            IF n.right # 0
            THEN IF top < maxDepth - 1
                 THEN generate_codes(nodes, n.right, Append(code, 1), afterLeft, maxDepth)
                 ELSE [afterLeft EXCEPT ![n.character] = code]
            ELSE afterLeft
    IN IF n.left = 0 /\ n.right = 0
       THEN [afterRight EXCEPT ![n.character] = code]
       ELSE afterRight

RECURSIVE write_tree(_, _)
write_tree(nodes, root) ==
    IF nodes[root].left # 0 \/ nodes[root].right # 0
    THEN <<0>> \o write_tree(nodes, nodes[root].left) \o write_tree(nodes, nodes[root].right)
    ELSE <<1, nodes[root].character>>

RECURSIVE CodeBits(_, _)
CodeBits(data, codes) ==
    IF data = <<>> THEN <<>> ELSE codes[Head(data)] \o CodeBits(Tail(data), codes)

BitAt(bits, i) == IF i <= Len(bits) THEN bits[i] ELSE 0

PackByte(bits) ==
    128 * BitAt(bits, 1) + 64 * BitAt(bits, 2) + 32 * BitAt(bits, 3) + 16 * BitAt(bits, 4)
    + 8 * BitAt(bits, 5) + 4 * BitAt(bits, 6) + 2 * BitAt(bits, 7) + BitAt(bits, 8)

\* the bit writer of compress_file: most significant bit first, the last
\* partial byte padded with zero bits
RECURSIVE PackBits(_)
PackBits(bits) ==
    IF bits = <<>> THEN <<>> ELSE <<PackByte(Take(bits, 8))>> \o PackBits(Drop(bits, 8))

\* the status of a process killed by an invalid memory access (SIGSEGV)
CRASH == 139

\* compress_file (Huffman) on the bytes of a readable input file.  With no
\* byte to count the heap of build_huffman_tree is empty: is_size_one is
\* false and extract_min reads array[size - 1] with the unsigned size 0, far
\* outside the array; the process is killed before the output is opened.
compress_file(data, goal) ==
    IF Len(data) = 0 THEN [rc |-> CRASH, out |-> NoFile]
    ELSE LET t == build_huffman_tree(data)
             codes == generate_codes(t.nodes, t.root, <<>>, NoCodes,
                                     set_huffman_optimization(goal))
         IN [rc |-> 0,
             out |-> LEBytes(Len(data), SizeofLong) \o write_tree(t.nodes, t.root)
                     \o PackBits(CodeBits(data, codes))]

\* read_tree: the tree read from the bytes at position pos (1-based), and the
\* position after it.  fgetc at end of file gives EOF: a flag that is not 0
\* makes a leaf, whose character is (uint8_t)EOF = 255.
RECURSIVE read_tree(_, _, _)
read_tree(file, pos, nodes) ==
    IF pos <= Len(file) /\ file[pos] = 0
    THEN LET l == read_tree(file, pos + 1, nodes)
             r == read_tree(file, l.pos, l.nodes)
             me == [create_node(DollarChar, 0) EXCEPT !.left = l.root, !.right = r.root]
         IN [nodes |-> Append(r.nodes, me), root |-> Len(r.nodes) + 1, pos |-> r.pos]
    ELSE LET character == IF pos + 1 <= Len(file) THEN file[pos + 1] ELSE 255
         IN [nodes |-> Append(nodes, create_node(character, 0)),
             root |-> Len(nodes) + 1,
             pos |-> Min(pos + 2, Len(file) + 1)]

RECURSIVE ByteBits(_, _)
ByteBits(b, n) == IF n = 0 THEN <<>> ELSE ByteBits(b \div 2, n - 1) \o <<b % 2>>

RECURSIVE UnpackBits(_)
UnpackBits(bytes) ==
    IF bytes = <<>> THEN <<>> ELSE ByteBits(Head(bytes), 8) \o UnpackBits(Tail(bytes))

\* the bit loop of decompress_file: one tree step per bit while
\* bytes_written < original_size; stepping to a NULL child is a crash
RECURSIVE TreeWalk(_, _, _, _, _, _)
TreeWalk(nodes, root, bits, current, out, original_size) ==
    IF Len(out) >= original_size \/ bits = <<>> THEN [rc |-> 0, out |-> out]
    ELSE LET next == IF Head(bits) = 1 THEN nodes[current].right ELSE nodes[current].left
         IN IF next = 0 THEN [rc |-> CRASH, out |-> out]
            ELSE IF nodes[next].left = 0 /\ nodes[next].right = 0
            THEN TreeWalk(nodes, root, Tail(bits), root,
                          Append(out, nodes[next].character), original_size)
            ELSE TreeWalk(nodes, root, Tail(bits), next, out, original_size)

\* decompress_file (Huffman) on the bytes of a readable file
decompress_file(file) ==
    IF Len(file) < SizeofLong THEN [rc |-> 1, out |-> NoFile]
    ELSE LET original_size == LEValue(Take(file, SizeofLong))
             t == read_tree(file, SizeofLong + 1, <<>>)
         IN TreeWalk(t.nodes, t.root, UnpackBits(Drop(file, t.pos - 1)), t.root,
                     <<>>, original_size)

\* --------------------------------------------------------------------- RLE
MAX_RUN == 255

\* the number of bytes at the head of rest that the loop adds to the run
\* before it writes it: equal to current_byte, and at most 'room' of them
RunExtent(rest, current_byte, room) ==
    LET most == Min(Len(rest), room)
    IN CHOOSE n \in 0..most :
           /\ \A j \in 1..n : rest[j] = current_byte
           /\ (n = most \/ rest[n + 1] # current_byte)

\* the run loop without the test count < MAX_RUN: the uint8_t count wraps
RECURSIVE RleRunsUncapped(_, _, _)
RleRunsUncapped(rest, current_byte, count) ==
    LET n == RunExtent(rest, current_byte, Len(rest))
    IN IF n = Len(rest) THEN <<(count + n) % 256, current_byte>>
       ELSE <<(count + n) % 256, current_byte>>
                \o RleRunsUncapped(SubSeq(rest, n + 2, Len(rest)), rest[n + 1], 1)

\* the run loop of compress_rle: the bytes after the first, the run so far;
\* one step is the iterations up to and including the one that writes a run
RECURSIVE RleRuns(_, _, _)
RleRuns(rest, current_byte, count) ==
    LET n == RunExtent(rest, current_byte, MAX_RUN - count)
    IN IF n = Len(rest) THEN <<count + n, current_byte>>
       ELSE <<count + n, current_byte>>
                \o RleRuns(SubSeq(rest, n + 2, Len(rest)), rest[n + 1], 1)

\* compress_rle on the bytes of a readable input file
compress_rle(data) ==
    [rc |-> 0,
     out |-> LEBytes(Len(data), SizeofLong)
             \o (IF Len(data) > 0 THEN RleRuns(Tail(data), Head(data), 1) ELSE <<>>)]

\* fgetc at position pos (1-based): EOF stored in a uint8_t is 255
GetcU8(file, pos) == IF pos <= Len(file) THEN file[pos] ELSE 255

\* the loop of decompress_rle: count copies of byte, never past file_size
RECURSIVE Repeat(_, _)
Repeat(b, n) ==
    IF n <= 0 THEN <<>>
    ELSE IF n = 1 THEN <<b>>
    ELSE LET half == Repeat(b, n \div 2)
         IN IF n % 2 = 1 THEN half \o half \o <<b>> ELSE half \o half

RECURSIVE RleExpand(_, _, _, _)
RleExpand(file, pos, out, file_size) ==
    IF Len(out) >= file_size THEN out
    ELSE LET count == GetcU8(file, pos)
             byte == GetcU8(file, pos + 1)
             n == Min(count, file_size - Len(out))
         IN RleExpand(file, pos + 2, out \o Repeat(byte, n), file_size)

\* decompress_rle on the bytes of a readable file that holds the size field
decompress_rle(file) ==
    [rc |-> 0,
     out |-> RleExpand(file, SizeofLong + 1, <<>>, LEValue(Take(file, SizeofLong)))]

\* -------------------------------------------------------------------- LZ77
DEFAULT_WINDOW_SIZE == 4096
DEFAULT_LOOKAHEAD_SIZE == 16
DEFAULT_MIN_MATCH == 3
SPEED_WINDOW_SIZE == 1024
SPEED_LOOKAHEAD_SIZE == 8
SPEED_MIN_MATCH == 4
SIZE_WINDOW_SIZE == 8192
SIZE_LOOKAHEAD_SIZE == 32
SIZE_MIN_MATCH == 2
UINT8_MAX == 255
SizeofSizeT == 8

\* set_lz77_optimization: the globals WINDOW_SIZE, LOOKAHEAD_SIZE, MIN_MATCH
set_lz77_optimization(goal) ==
    CASE goal = OPT_SPEED -> [WINDOW_SIZE |-> SPEED_WINDOW_SIZE,
                              LOOKAHEAD_SIZE |-> SPEED_LOOKAHEAD_SIZE,
                              MIN_MATCH |-> SPEED_MIN_MATCH]
      [] goal = OPT_SIZE -> [WINDOW_SIZE |-> SIZE_WINDOW_SIZE,
                             LOOKAHEAD_SIZE |-> SIZE_LOOKAHEAD_SIZE,
                             MIN_MATCH |-> SIZE_MIN_MATCH]
      [] OTHER -> [WINDOW_SIZE |-> DEFAULT_WINDOW_SIZE,
                   LOOKAHEAD_SIZE |-> DEFAULT_LOOKAHEAD_SIZE,
                   MIN_MATCH |-> DEFAULT_MIN_MATCH]

\* the inner comparison loop: data is 0-based in the source, data[k] is
\* data[k + 1] here
RECURSIVE MatchRun(_, _, _, _, _)
MatchRun(data, i, current_pos, j, limit) ==
    IF j < limit /\ data[i + j + 1] = data[current_pos + j + 1]
    THEN MatchRun(data, i, current_pos, j + 1, limit)
    ELSE j

\* the window loop of find_longest_match from window position i on
RECURSIVE MatchScan(_, _, _, _, _, _)
MatchScan(data, i, current_pos, lookahead_end, best, P) ==
    IF i >= current_pos THEN best
    ELSE IF data[i + 1] # data[current_pos + 1]
         THEN MatchScan(data, i + 1, current_pos, lookahead_end, best, P)
         ELSE LET len == MatchRun(data, i, current_pos, 0, lookahead_end - current_pos)
              IN IF len >= P.MIN_MATCH /\ len > best.length
                 THEN IF len >= UINT8_MAX
                      THEN [offset |-> (current_pos - i) % 65536, length |-> UINT8_MAX]
                      ELSE MatchScan(data, i + 1, current_pos, lookahead_end,
                                     [offset |-> (current_pos - i) % 65536, length |-> len], P)
                 ELSE MatchScan(data, i + 1, current_pos, lookahead_end, best, P)

find_longest_match(data, current_pos, P) ==
    LET data_size == Len(data)
        window_start == IF current_pos <= P.WINDOW_SIZE THEN 0 ELSE current_pos - P.WINDOW_SIZE
        lookahead_end == Min(current_pos + P.LOOKAHEAD_SIZE, data_size)
    IN IF current_pos + P.MIN_MATCH > data_size THEN [offset |-> 0, length |-> 0]
       ELSE MatchScan(data, window_start, current_pos, lookahead_end,
                      [offset |-> 0, length |-> 0], P)

\* the token loop of compress_lz77_buffer; output_size is the capacity
RECURSIVE Lz77Tokens(_, _, _, _, _)
Lz77Tokens(input, in_pos, out, output_size, P) ==
    IF in_pos >= Len(input) THEN [rc |-> 0, out |-> out]
    ELSE LET m == find_longest_match(input, in_pos, P)
         IN IF Len(out) + 4 > output_size THEN [rc |-> 1, out |-> out]
            ELSE IF m.length >= P.MIN_MATCH
                 THEN Lz77Tokens(input, in_pos + m.length,
                                 out \o <<1, (m.offset \div 256) % 256, m.offset % 256, m.length>>,
                                 output_size, P)
                 ELSE Lz77Tokens(input, in_pos + 1, out \o <<0, input[in_pos + 1]>>,
                                 output_size, P)

compress_lz77_buffer(input, output_size, P) ==
    IF Len(input) = 0 THEN [rc |-> 1, out |-> <<>>]
    ELSE Lz77Tokens(input, 0, <<>>, output_size, P)

\* compress_lz77 on the bytes of a readable input file; no output file is
\* created when it fails
compress_lz77(data, goal) ==
    LET P == set_lz77_optimization(goal)
        r == compress_lz77_buffer(data, Len(data) * 2, P)
    IN IF Len(data) = 0 \/ r.rc # 0 THEN [rc |-> 1, out |-> NoFile]
       ELSE [rc |-> 0, out |-> LEBytes(Len(data), SizeofSizeT) \o r.out]

RECURSIVE CopyMatch(_, _, _)
CopyMatch(out, offset, length) ==
    IF length = 0 THEN out
    ELSE CopyMatch(Append(out, out[Len(out) - offset + 1]), offset, length - 1)

\* the token loop without the test out_pos + length > *output_size
RECURSIVE Lz77ExpandAnyLength(_, _, _, _)
Lz77ExpandAnyLength(input, in_pos, out, output_size) ==
    IF ~(in_pos < Len(input) /\ Len(out) < output_size) THEN [rc |-> 0, out |-> out]
    ELSE IF input[in_pos + 1] = 1
    THEN IF in_pos + 1 + 3 > Len(input) THEN [rc |-> 1, out |-> out]
         ELSE LET offset == input[in_pos + 2] * 256 + input[in_pos + 3]
                  length == input[in_pos + 4]
              IN IF offset = 0 \/ offset > Len(out) THEN [rc |-> 1, out |-> out]
                 ELSE Lz77ExpandAnyLength(input, in_pos + 4, CopyMatch(out, offset, length),
                                 output_size)
    ELSE IF in_pos + 1 >= Len(input) THEN [rc |-> 1, out |-> out]
         ELSE Lz77ExpandAnyLength(input, in_pos + 2, Append(out, input[in_pos + 2]), output_size)

\* the token loop of decompress_lz77_buffer; in_pos is 0-based
RECURSIVE Lz77Expand(_, _, _, _)
Lz77Expand(input, in_pos, out, output_size) ==
    IF ~(in_pos < Len(input) /\ Len(out) < output_size) THEN [rc |-> 0, out |-> out]
    ELSE IF input[in_pos + 1] = 1
    THEN IF in_pos + 1 + 3 > Len(input) THEN [rc |-> 1, out |-> out]
         ELSE LET offset == input[in_pos + 2] * 256 + input[in_pos + 3]
                  length == input[in_pos + 4]
              IN IF offset = 0 \/ offset > Len(out) THEN [rc |-> 1, out |-> out]
                 ELSE IF Len(out) + length > output_size THEN [rc |-> 1, out |-> out]
                 ELSE Lz77Expand(input, in_pos + 4, CopyMatch(out, offset, length),
                                 output_size)
    ELSE IF in_pos + 1 >= Len(input) THEN [rc |-> 1, out |-> out]
         ELSE Lz77Expand(input, in_pos + 2, Append(out, input[in_pos + 2]), output_size)

decompress_lz77_buffer(input, output_size) ==
    IF Len(input) = 0 THEN [rc |-> 1, out |-> <<>>]
    ELSE Lz77Expand(input, 0, <<>>, output_size)

\* decompress_lz77 on the bytes of a readable file
decompress_lz77(file) ==
    IF Len(file) <= SizeofSizeT THEN [rc |-> 1, out |-> NoFile]
    ELSE LET original_size == LEValue(Take(file, SizeofSizeT))
             r == decompress_lz77_buffer(Drop(file, SizeofSizeT), original_size)
         IN IF r.rc # 0 THEN [rc |-> 1, out |-> NoFile] ELSE [rc |-> 0, out |-> r.out]

\* ------------------------------------------------- whole-file codec runs
HUFFMAN == 0
RLE == 1
LZ77 == 4
PROGRESSIVE == 7
PrimitiveCodecs == {HUFFMAN, RLE, LZ77}

\* algorithms[index].compress applied to the bytes of an existing file
CodecCompress(index, data, goal) ==
    CASE index = HUFFMAN -> compress_file(data, goal)
      [] index = RLE -> compress_rle(data)
      [] index = LZ77 -> compress_lz77(data, goal)

\* algorithms[index].decompress applied to a path: fopen fails on NoFile
CodecDecompress(index, file) ==
    IF file = NoFile THEN [rc |-> 1, out |-> NoFile]
    ELSE CASE index = HUFFMAN -> decompress_file(file)
           [] index = RLE -> decompress_rle(file)
           [] index = LZ77 -> decompress_lz77(file)

\* a return value not yet produced
NoResult == 0 - 1

\* the initialisers of the codecs' file-scope parameters; no thread has
\* stored to them
StaticGlobals ==
    [MAX_TREE_DEPTH |-> DEFAULT_MAX_TREE_DEPTH,
     lz77 |-> [WINDOW_SIZE |-> DEFAULT_WINDOW_SIZE,
               LOOKAHEAD_SIZE |-> DEFAULT_LOOKAHEAD_SIZE,
               MIN_MATCH |-> DEFAULT_MIN_MATCH],
     stored_by |-> {}]
GlobalsIdle == codec_globals = StaticGlobals

\* no large-file job
LargeIdle == lf = <<>>

\* the worker-pool driver before any parallel job has started
ParallelIdle ==
    /\ thread_count = 0
    /\ num_cores = 1
    /\ chunks = <<>>
    /\ batch = [current_chunk |-> 0, current_batch_size |-> 0, num_threads |-> 0]
    /\ io_fault = FALSE

\* no progressive job
ProgressiveIdle ==
    /\ fs = <<>>
    /\ prog = [container |-> <<>>, start_block |-> 0, end_block |-> 0]

\* no split archive job
SplitIdle ==
    /\ parts = <<>>
    /\ max_part_size = 0

\* no deduplication job
DedupIdle ==
    /\ dedup_chunk_size = 0
    /\ current_chunk_size = 0
    /\ hash_table = <<>>
    /\ dedup_stream = NoFile

\* "default_encryption_key", the initial value of the static
DefaultKey ==
    <<100, 101, 102, 97, 117, 108, 116, 95, 101, 110, 99, 114, 121, 112, 116, 105, 111, 110,
      95, 107, 101, 121>>

\* main has not run
MainIdle ==
    /\ cmd = [compress_mode |-> 0, deduplication_enabled |-> FALSE, split_mode |-> FALSE,
              progressive_mode |-> FALSE, range_specified |-> FALSE,
              large_file_mode |-> FALSE, output_given |-> FALSE,
              input_extension |-> 0 - 1]
    /\ result = 0
    /\ op_ok = FALSE
    /\ exit_code = NoResult
    /\ encryption_key = DefaultKey

InitCodec ==
    /\ LargeIdle
    /\ GlobalsIdle
    /\ algorithm \in PrimitiveCodecs
    /\ opt_goal \in OptimizationGoal
    /\ in_file \in Inputs
    /\ packed_file = NoFile
    /\ out_file = NoFile
    /\ result_c = NoResult
    /\ result_d = NoResult
    /\ stage = "input"
    /\ ParallelIdle
    /\ ProgressiveIdle
    /\ SplitIdle
    /\ DedupIdle
    /\ MainIdle

Compress ==
    /\ stage = "input"
    /\ LET r == CodecCompress(algorithm, in_file, opt_goal)
       IN /\ packed_file' = r.out
          /\ result_c' = r.rc
    /\ stage' = "compressed"
    /\ UNCHANGED <<algorithm, opt_goal, in_file, out_file, result_d>>
    /\ UNCHANGED notCodecVars

Decompress ==
    /\ stage = "compressed"
    /\ LET r == CodecDecompress(algorithm, packed_file)
       IN /\ out_file' = r.out
          /\ result_d' = r.rc
    /\ stage' = "decompressed"
    /\ UNCHANGED <<algorithm, opt_goal, in_file, packed_file, result_c>>
    /\ UNCHANGED notCodecVars

NextCodec == Compress \/ Decompress

SpecCodec == InitCodec /\ [][NextCodec]_vars

\* C1: for every byte sequence X, also one with a single distinct byte value,
\* the whole-file Huffman decoder applied to the whole-file Huffman encoder's
\* output for X yields exactly X.
C1_HuffmanRoundTrip ==
    (algorithm = HUFFMAN /\ stage = "decompressed")
        => (result_c = 0 /\ result_d = 0 /\ out_file = in_file)

\* C10: for every byte sequence X, also one with a match that overlaps the
\* bytes it produces, LZ77 decompression of the LZ77 compression of X yields
\* exactly X.
C10_Lz77RoundTrip ==
    (algorithm = LZ77 /\ stage = "decompressed")
        => (result_c = 0 /\ result_d = 0 /\ out_file = in_file)

\* ----------------------------------------------------- worker-pool driver
MAX_THREADS == 64
DEFAULT_THREADS == 0

\* The driver gives every thread at least 1024 bytes; MinChunk stands for
\* that floor, scaled so that short inputs are split into several chunks.
MinChunk == 2
\* thread counts asked for with -t are 0..MaxThreads, machines have
\* 1..MaxCores processors
MaxThreads == 2
MaxCores == 2

get_optimal_threads(cores) == IF cores > 0 THEN cores ELSE DEFAULT_THREADS

\* compress_file_parallel without the test against MAX_THREADS
CompressPlanUncapped(file_size, requested, cores) ==
    LET n1 == IF requested <= 0 THEN get_optimal_threads(cores) ELSE requested
        n3 == IF file_size < n1 * MinChunk THEN 1 ELSE n1
    IN [num_threads |-> n3, chunk_size |-> file_size \div n3]

\* num_threads and chunk_size as compress_file_parallel settles them
CompressPlan(file_size, requested, cores) ==
    LET n1 == IF requested <= 0 THEN get_optimal_threads(cores) ELSE requested
        n2 == IF n1 > MAX_THREADS THEN MAX_THREADS ELSE n1
        n3 == IF file_size < n2 * MinChunk THEN 1 ELSE n2
        chunk_size == file_size \div n3
    IN IF chunk_size < MinChunk /\ n3 > 1
       THEN [num_threads |-> (file_size \div MinChunk)
                             + (IF file_size % MinChunk # 0 THEN 1 ELSE 0),
             chunk_size |-> MinChunk]
       ELSE [num_threads |-> n3, chunk_size |-> chunk_size]

\* chunks[i] for i = from..num_threads-1 (thread_id i is chunks[i + 1] here);
\* chunk_file is the file at output_path, temp_input the file at
\* chunk_input_<i>.tmp, rc what the worker's fopen and codec calls reported
\* (the driver never looks at it)
RECURSIVE MakeChunks(_, _, _, _)
MakeChunks(data, num_threads, chunk_size, i) ==
    IF i >= num_threads THEN <<>>
    ELSE LET offset == i * chunk_size
             last_or_full == IF i = num_threads - 1 THEN Len(data) - offset
                                   ELSE chunk_size
         IN <<[data |-> SubSeq(data, offset + 1, offset + last_or_full),
               size |-> last_or_full,
               original_offset |-> offset,
               thread_id |-> i,
               pc |-> "launched",
               chunk_file |-> NoFile,
               temp_input |-> NoFile,
               rc |-> NoResult]>>
            \o MakeChunks(data, num_threads, chunk_size, i + 1)

\* the two fwrite calls of compress_chunk_thread before the codec runs
ChunkHeader(c) == LEBytes(c.original_offset, SizeofSizeT) \o LEBytes(c.size, SizeofSizeT)

AllDone(cs) == \A i \in 1..Len(cs) : cs[i].pc = "done"

\* the combine loop of compress_file_parallel: a chunk whose file cannot be
\* opened is skipped
RECURSIVE CombineCompressed(_)
CombineCompressed(cs) ==
    IF cs = <<>> THEN <<>>
    ELSE (IF Head(cs).chunk_file = NoFile THEN <<>>
          ELSE LEBytes(Len(Head(cs).chunk_file), SizeofLong) \o Head(cs).chunk_file)
         \o CombineCompressed(Tail(cs))

\* the combine loop of decompress_file_parallel
RECURSIVE CombineDecompressed(_)
CombineDecompressed(cs) ==
    IF cs = <<>> THEN <<>>
    ELSE (IF Head(cs).chunk_file = NoFile THEN <<>> ELSE Head(cs).chunk_file)
         \o CombineDecompressed(Tail(cs))

RECURSIVE RemoveChunkFiles(_)
RemoveChunkFiles(cs) ==
    IF cs = <<>> THEN <<>>
    ELSE <<[Head(cs) EXCEPT !.chunk_file = NoFile]>> \o RemoveChunkFiles(Tail(cs))

\* compress_file_parallel up to the launch of the last thread
ParCompressStart ==
    /\ stage = "input"
    /\ IF in_file = NoFile \/ Len(in_file) = 0
       THEN /\ result_c' = 1
            /\ stage' = "compressed"
            /\ UNCHANGED <<packed_file, chunks>>
       ELSE LET plan == CompressPlan(Len(in_file), thread_count, num_cores)
            IN /\ packed_file' = LEBytes(plan.num_threads, SizeofInt)
               /\ chunks' = MakeChunks(in_file, plan.num_threads, plan.chunk_size, 0)
               /\ stage' = "compressing"
               /\ UNCHANGED result_c
    /\ UNCHANGED <<algorithm, opt_goal, in_file, out_file, result_d>>
    /\ UNCHANGED <<thread_count, num_cores, batch, io_fault>>
    /\ UNCHANGED notParallelVars

\* compress_chunk_thread up to the codec call: the chunk file gets its
\* header and the chunk goes to the temporary input file; either fopen may
\* fail
CompressWorkerPrepare(i) ==
    /\ stage = "compressing"
    /\ chunks[i].pc = "launched"
    /\ \E outcome \in {"ok", "no_temp_file", "no_temp_input"} :
        /\ chunks' = [chunks EXCEPT ![i] =
              CASE outcome = "no_temp_file" ->
                     [chunks[i] EXCEPT !.pc = "done", !.rc = 1]
                [] outcome = "no_temp_input" ->
                     [chunks[i] EXCEPT !.pc = "done", !.rc = 1,
                                       !.chunk_file = ChunkHeader(chunks[i])]
                [] OTHER ->
                     [chunks[i] EXCEPT !.pc = "prepared",
                                       !.chunk_file = ChunkHeader(chunks[i]),
                                       !.temp_input = chunks[i].data]]
        /\ io_fault' = (io_fault \/ outcome # "ok")
    /\ UNCHANGED codecVars
    /\ UNCHANGED <<thread_count, num_cores, batch>>
    /\ UNCHANGED notParallelVars

\* the rest of compress_chunk_thread: the codec reopens output_path for
\* writing only when it succeeds; its return value is dropped
CompressWorkerRun(i) ==
    /\ stage = "compressing"
    /\ chunks[i].pc = "prepared"
    /\ LET r == CodecCompress(algorithm, chunks[i].temp_input, opt_goal)
       IN chunks' = [chunks EXCEPT ![i] =
              [chunks[i] EXCEPT !.pc = "done", !.rc = r.rc, !.temp_input = NoFile,
                                !.chunk_file = IF r.out = NoFile THEN chunks[i].chunk_file
                                               ELSE r.out]]
    /\ UNCHANGED codecVars
    /\ UNCHANGED <<thread_count, num_cores, batch, io_fault>>
    /\ UNCHANGED notParallelVars

\* compress_file_parallel after the last pthread_join
ParCompressCombine ==
    /\ stage = "compressing"
    /\ AllDone(chunks)
    /\ packed_file' = packed_file \o CombineCompressed(chunks)
    /\ chunks' = RemoveChunkFiles(chunks)
    /\ result_c' = 0
    /\ stage' = "compressed"
    /\ UNCHANGED <<algorithm, opt_goal, in_file, out_file, result_d>>
    /\ UNCHANGED <<thread_count, num_cores, batch, io_fault>>
    /\ UNCHANGED notParallelVars

\* num_threads as decompress_file_parallel settles it
DecompressPlan(chunk_count, requested, cores) ==
    LET n1 == IF requested <= 0 THEN get_optimal_threads(cores) ELSE requested
    IN IF n1 > MAX_THREADS \/ n1 > chunk_count
       THEN (IF chunk_count < MAX_THREADS THEN chunk_count ELSE MAX_THREADS)
       ELSE n1

\* the loop that reads chunk i = from..chunk_count-1 from offset pos of the
\* packed file: a long with the size, then that many bytes
RECURSIVE ReadChunks(_, _, _, _)
ReadChunks(file, pos, i, chunk_count) ==
    IF i >= chunk_count THEN [ok |-> TRUE, chunks |-> <<>>]
    ELSE IF pos + SizeofLong > Len(file) THEN [ok |-> FALSE, chunks |-> <<>>]
    ELSE LET chunk_size == LEValue(SubSeq(file, pos + 1, pos + SizeofLong))
         IN IF pos + SizeofLong + chunk_size > Len(file)
            THEN [ok |-> FALSE, chunks |-> <<>>]
            ELSE LET rest == ReadChunks(file, pos + SizeofLong + chunk_size, i + 1,
                                        chunk_count)
                 IN [ok |-> rest.ok,
                     chunks |-> <<[data |-> SubSeq(file, pos + SizeofLong + 1,
                                                   pos + SizeofLong + chunk_size),
                                   size |-> chunk_size,
                                   original_offset |-> 0,
                                   thread_id |-> i,
                                   pc |-> "waiting",
                                   chunk_file |-> NoFile,
                                   temp_input |-> NoFile,
                                   rc |-> NoResult]>> \o rest.chunks]

\* pthread_create for the chunks of one batch
RECURSIVE LaunchBatch(_, _, _)
LaunchBatch(cs, current_chunk, current_batch_size) ==
    IF current_batch_size = 0 THEN cs
    ELSE LaunchBatch([cs EXCEPT ![current_chunk + 1] =
                          [cs[current_chunk + 1] EXCEPT !.pc = "launched"]],
                     current_chunk + 1, current_batch_size - 1)

NoneRunning(cs) == \A i \in 1..Len(cs) : cs[i].pc \in {"waiting", "done"}

\* decompress_file_parallel up to the launch of the first batch; the
\* process that decompresses has its own -t
ParDecompressStart ==
    /\ stage = "compressed"
    /\ \E t \in 0..MaxThreads :
        /\ thread_count' = t
        /\ IF packed_file = NoFile \/ Len(packed_file) < SizeofInt
           THEN /\ result_d' = 1
                /\ stage' = "decompressed"
                /\ UNCHANGED <<out_file, chunks, batch>>
           ELSE LET chunk_count == LEValue(Take(packed_file, SizeofInt))
                    num_threads == DecompressPlan(chunk_count, t, num_cores)
                    read == ReadChunks(packed_file, SizeofInt, 0, chunk_count)
                    first == Min(chunk_count, num_threads)
                IN IF ~read.ok
                   THEN /\ result_d' = 1
                        /\ stage' = "decompressed"
                        /\ UNCHANGED <<out_file, chunks, batch>>
                   ELSE IF chunk_count <= 0
                   THEN /\ result_d' = 0
                        /\ out_file' = <<>>
                        /\ chunks' = <<>>
                        /\ stage' = "decompressed"
                        /\ UNCHANGED batch
                   ELSE /\ chunks' = LaunchBatch(read.chunks, 0, first)
                        /\ batch' = [current_chunk |-> 0, current_batch_size |-> first,
                                     num_threads |-> num_threads]
                        /\ stage' = "decompressing"
                        /\ UNCHANGED <<out_file, result_d>>
    /\ UNCHANGED <<algorithm, opt_goal, in_file, packed_file, result_c>>
    /\ UNCHANGED <<num_cores, io_fault>>
    /\ UNCHANGED notParallelVars

\* decompress_chunk_thread up to the codec call
DecompressWorkerPrepare(i) ==
    /\ stage = "decompressing"
    /\ chunks[i].pc = "launched"
    /\ \E outcome \in {"ok", "no_temp_input"} :
        /\ chunks' = [chunks EXCEPT ![i] =
              IF outcome = "ok"
              THEN [chunks[i] EXCEPT !.pc = "prepared", !.temp_input = chunks[i].data]
              ELSE [chunks[i] EXCEPT !.pc = "done", !.rc = 1]]
        /\ io_fault' = (io_fault \/ outcome # "ok")
    /\ UNCHANGED codecVars
    /\ UNCHANGED <<thread_count, num_cores, batch>>
    /\ UNCHANGED notParallelVars

\* the rest of decompress_chunk_thread; a NULL dereference in the codec
\* kills the process, any other return value is dropped
DecompressWorkerRun(i) ==
    /\ stage = "decompressing"
    /\ chunks[i].pc = "prepared"
    /\ LET r == CodecDecompress(algorithm, chunks[i].temp_input)
       IN IF r.rc = CRASH
          THEN /\ result_d' = CRASH
               /\ stage' = "decompressed"
               /\ chunks' = [chunks EXCEPT ![i] = [chunks[i] EXCEPT !.rc = CRASH]]
          ELSE /\ chunks' = [chunks EXCEPT ![i] =
                     [chunks[i] EXCEPT !.pc = "done", !.rc = r.rc, !.temp_input = NoFile,
                                       !.chunk_file = r.out]]
               /\ UNCHANGED <<result_d, stage>>
    /\ UNCHANGED <<algorithm, opt_goal, in_file, packed_file, out_file, result_c>>
    /\ UNCHANGED <<thread_count, num_cores, batch, io_fault>>
    /\ UNCHANGED notParallelVars

\* the end of one pass of the batch loop when chunks remain
ParDecompressNextBatch ==
    /\ stage = "decompressing"
    /\ NoneRunning(chunks)
    /\ batch.current_chunk + batch.current_batch_size < Len(chunks)
    /\ LET current_chunk == batch.current_chunk + batch.current_batch_size
           remaining_chunks == Len(chunks) - current_chunk
           current_batch_size == Min(remaining_chunks, batch.num_threads)
       IN /\ chunks' = LaunchBatch(chunks, current_chunk, current_batch_size)
          /\ batch' = [batch EXCEPT !.current_chunk = current_chunk,
                                    !.current_batch_size = current_batch_size]
    /\ UNCHANGED codecVars
    /\ UNCHANGED <<thread_count, num_cores, io_fault>>
    /\ UNCHANGED notParallelVars

\* decompress_file_parallel after the last batch has been joined
ParDecompressCombine ==
    /\ stage = "decompressing"
    /\ AllDone(chunks)
    /\ out_file' = CombineDecompressed(chunks)
    /\ chunks' = RemoveChunkFiles(chunks)
    /\ result_d' = 0
    /\ stage' = "decompressed"
    /\ UNCHANGED <<algorithm, opt_goal, in_file, packed_file, result_c>>
    /\ UNCHANGED <<thread_count, num_cores, batch, io_fault>>
    /\ UNCHANGED notParallelVars

InitParallel ==
    /\ LargeIdle
    /\ GlobalsIdle
    /\ algorithm \in PrimitiveCodecs
    /\ opt_goal \in OptimizationGoal
    /\ in_file \in Inputs
    /\ packed_file = NoFile
    /\ out_file = NoFile
    /\ result_c = NoResult
    /\ result_d = NoResult
    /\ stage = "input"
    /\ thread_count \in 0..MaxThreads
    /\ num_cores \in 1..MaxCores
    /\ chunks = <<>>
    /\ batch = [current_chunk |-> 0, current_batch_size |-> 0, num_threads |-> 0]
    /\ io_fault = FALSE
    /\ ProgressiveIdle
    /\ SplitIdle
    /\ DedupIdle
    /\ MainIdle

NextParallel ==
    \/ ParCompressStart
    \/ \E i \in 1..Len(chunks) : CompressWorkerPrepare(i)
    \/ \E i \in 1..Len(chunks) : CompressWorkerRun(i)
    \/ ParCompressCombine
    \/ ParDecompressStart
    \/ \E i \in 1..Len(chunks) : DecompressWorkerPrepare(i)
    \/ \E i \in 1..Len(chunks) : DecompressWorkerRun(i)
    \/ ParDecompressNextBatch
    \/ ParDecompressCombine

SpecParallel == InitParallel /\ [][NextParallel]_vars

\* the chunk records of a packed file from offset pos on, as far as they
\* can be read
RECURSIVE RecordsOf(_, _)
RecordsOf(file, pos) ==
    IF pos + SizeofLong > Len(file) THEN <<>>
    ELSE LET chunk_size == LEValue(SubSeq(file, pos + 1, pos + SizeofLong))
         IN IF pos + SizeofLong + chunk_size > Len(file) THEN <<>>
            ELSE <<SubSeq(file, pos + SizeofLong + 1, pos + SizeofLong + chunk_size)>>
                 \o RecordsOf(file, pos + SizeofLong + chunk_size)

RECURSIVE DecodedInOrder(_, _)
DecodedInOrder(index, records) ==
    IF records = <<>> THEN <<>>
    ELSE CodecDecompress(index, Head(records)).out \o DecodedInOrder(index, Tail(records))

\* C2: for any X, any codec and any thread count, under every interleaving
\* of the workers, parallel decompression of the parallel compression of X
\* yields exactly X (no fopen of a worker failing).
C2_ParallelRoundTrip ==
    (stage = "decompressed" /\ ~io_fault)
        => (result_c = 0 /\ result_d = 0 /\ out_file = in_file)

\* C3: the i-th chunk record of the packed file is the encoding of the i-th
\* contiguous chunk of the input, and on decompression the decoded chunks
\* are written in increasing chunk index with none omitted.
C3_ChunkRecordsInOrder ==
    /\ (stage = "compressed" /\ result_c = 0) =>
           LET records == RecordsOf(packed_file, SizeofInt)
           IN /\ Len(records) = Len(chunks)
              /\ \A i \in 1..Len(chunks) :
                    records[i] = CodecCompress(algorithm, chunks[i].data, opt_goal).out
    /\ (stage = "decompressed" /\ result_d = 0) =>
           LET records == RecordsOf(packed_file, SizeofInt)
           IN /\ \A i \in 1..Len(records) :
                    CodecDecompress(algorithm, records[i]).rc = 0
              /\ out_file = DecodedInOrder(algorithm, records)

\* C4: when a worker of a parallel job fails (a temporary file cannot be
\* created, or the codec call reports failure) the job returns failure and
\* leaves no output file; it returns success only when every chunk was
\* encoded or decoded successfully.
C4_WorkerFailureFailsJob ==
    /\ (stage = "compressed" /\ \E i \in 1..Len(chunks) : chunks[i].rc # 0)
           => (result_c # 0 /\ packed_file = NoFile)
    /\ (stage = "decompressed" /\ \E i \in 1..Len(chunks) : chunks[i].rc # 0)
           => (result_d # 0 /\ out_file = NoFile)

\* ------------------------------------------------------------- CRC-32
\* a uint32_t as its 32 bits, least significant first
RECURSIVE LsbBits(_, _)
LsbBits(v, n) == IF n = 0 THEN <<>> ELSE <<v % 2>> \o LsbBits(v \div 2, n - 1)

RECURSIVE BitsValue(_)
BitsValue(bits) == IF bits = <<>> THEN 0 ELSE Head(bits) + 2 * BitsValue(Tail(bits))

RECURSIVE XorBits(_, _)
XorBits(a, b) ==
    IF a = <<>> THEN <<>>
    ELSE <<(Head(a) + Head(b)) % 2>> \o XorBits(Tail(a), Tail(b))

\* 0xEDB88320
CRC32_POLYNOMIAL == LsbBits(32, 8) \o LsbBits(131, 8) \o LsbBits(184, 8) \o LsbBits(237, 8)

\* the inner loop of compute_crc32, j..7 (crc is a uint32_t: 32 bits)
RECURSIVE CrcShift(_, _)
CrcShift(crc, j) ==
    IF j >= 8 THEN crc
    ELSE LET shifted == IF Head(crc) = 1
                        THEN XorBits(Tail(crc) \o <<0>>, CRC32_POLYNOMIAL)
                        ELSE Tail(crc) \o <<0>>
         IN IF Len(shifted) = 32 THEN CrcShift(shifted, j + 1) ELSE <<>>

\* the outer loop of compute_crc32
RECURSIVE CrcBytes(_, _)
CrcBytes(crc, data) ==
    IF data = <<>> THEN crc
    ELSE LET next == CrcShift(XorBits(crc, LsbBits(Head(data), 32)), 0)
         IN IF Len(next) = 32 THEN CrcBytes(next, Tail(data)) ELSE <<>>

compute_crc32(data) == XorBits(CrcBytes(Repeat(1, 32), data), Repeat(1, 32))

\* ============================================== progressive container
\* progressive.c, progressive.h.  The container is written by
\* progressive_compress_file and read back by progressive_decompress_file
\* (whole file) or progressive_decompress_range (blocks a..b).  main passes
\* checksum_type = CHECKSUM_NONE unless -I is given.
MAGIC_NUMBER == <<80, 82, 79, 71>>
CURRENT_VERSION == 1
CHECKSUM_NONE == 0
CHECKSUM_CRC32 == 1
CHECKSUM_MD5 == 2
CHECKSUM_SHA256 == 3
SizeofChecksumType == 4
FLAG_HAS_CHECKSUM == 1
FLAG_STREAMING_OPTIMIZED == 2
\* sizeof on the x86-64 build: ChecksumData is 4 + 4 + 16 + 32 bytes,
\* ProgressiveHeader has one byte of padding after flags
SizeofChecksumData == 56
SizeofProgressiveHeader == 80
SizeofBlockHeader == 68
SizeofUint32 == 4
SizeofUint64 == 8

\* (the uint32_t fields stay far below 2^32 for the files modelled here)

\* the block size of the container; MaxBlock bounds the block numbers of -R
BlockSize == 2
MaxBlock == 2
DEFAULT_BLOCK_SIZE == BlockSize

\* file names are strings of characters
DotProg == <<".", "p", "r", "o", "g">>
InputName == <<"a">>
OutputName == <<"o", "u", "t">>
TEMP_INPUT_FILE == <<"t", "e", "m", "p", "_", "i", "n", "p", "u", "t", ".", "d", "a", "t">>
ContainerNames == {<<"a">> \o DotProg, <<"b">> \o DotProg, <<"a", ".", "b", "i", "n">>}
Paths == {InputName, OutputName, TEMP_INPUT_FILE, <<"b">>} \cup ContainerNames

Exists(files, name) == name \in DOMAIN files /\ files[name] # NoFile

\* fread of n bytes at offset pos (0-based): the bytes, or fewer at end of file
ReadAt(file, pos, n) == Take(Drop(file, pos), n)

\* compress_buffer: output is the caller's buffer of *output_size bytes,
\* whose content before the call is 'buffer'
compress_buffer(algorithm_index, input, output_size, buffer) ==
    IF algorithm_index \in {HUFFMAN, RLE}
    THEN IF output_size < Len(input)
         THEN [rc |-> 0, output_size |-> output_size, output |-> buffer]
         ELSE [rc |-> 1, output_size |-> Len(input),
               output |-> input \o Drop(buffer, Len(input))]
    ELSE [rc |-> 0, output_size |-> output_size, output |-> buffer]

\* decompress_buffer has the same body
decompress_buffer(algorithm_index, input, output_size, buffer) ==
    IF algorithm_index \in {HUFFMAN, RLE}
    THEN IF output_size < Len(input)
         THEN [rc |-> 0, output_size |-> output_size, output |-> buffer]
         ELSE [rc |-> 1, output_size |-> Len(input),
               output |-> input \o Drop(buffer, Len(input))]
    ELSE [rc |-> 0, output_size |-> output_size, output |-> buffer]

\* fwrite(&header, sizeof(header), 1, output): the struct as it lies in memory
ProgressiveHeaderBytes(algorithm_index, flags, block_size, total_blocks, original_size) ==
    MAGIC_NUMBER \o <<CURRENT_VERSION, algorithm_index, flags, 0>>
        \o LEBytes(block_size, SizeofUint32)
        \o LEBytes(total_blocks, SizeofUint32)
        \o LEBytes(original_size, SizeofUint64)
        \o Repeat(0, SizeofChecksumData)

BlockHeaderBytes(block_id, compressed_size, original_size) ==
    LEBytes(block_id, SizeofUint32)
        \o LEBytes(compressed_size, SizeofUint32)
        \o LEBytes(original_size, SizeofUint32)
        \o Repeat(0, SizeofChecksumData)

\* the block loop of progressive_compress_file
RECURSIVE CompressBlocks(_, _, _, _)
CompressBlocks(data, block_size, block_id, total_bytes_processed) ==
    IF total_bytes_processed >= Len(data) THEN [ok |-> TRUE, out |-> <<>>]
    ELSE LET bytes_read == Min(Len(data) - total_bytes_processed, block_size)
             input_buffer == ReadAt(data, total_bytes_processed, bytes_read)
             c == compress_buffer(HUFFMAN, input_buffer, block_size * 2,
                                  Repeat(0, block_size * 2))
         IN IF c.rc = 0 THEN [ok |-> FALSE, out |-> <<>>]
            ELSE LET rest == CompressBlocks(data, block_size, block_id + 1,
                                            total_bytes_processed + bytes_read)
                 IN [ok |-> rest.ok,
                     out |-> BlockHeaderBytes(block_id, c.output_size, bytes_read)
                                 \o Take(c.output, c.output_size) \o rest.out]

\* progressive_compress_file: 1 and the container, or 0 and what was written
progressive_compress_file(data, checksum_type) ==
    LET block_size == DEFAULT_BLOCK_SIZE
        file_size == Len(data)
        flags == IF checksum_type # CHECKSUM_NONE THEN FLAG_HAS_CHECKSUM ELSE 0
        total_blocks == (file_size + block_size - 1) \div block_size
        header == ProgressiveHeaderBytes(HUFFMAN, flags, block_size,
                                         total_blocks, file_size)
        blocks == CompressBlocks(data, block_size, 0, 0)
    IN [rc |-> IF blocks.ok THEN 1 ELSE 0, out |-> header \o blocks.out]

get_checksum_size(type) ==
    CASE type = CHECKSUM_CRC32 -> SizeofUint32
      [] type = CHECKSUM_MD5 -> 16
      [] type = CHECKSUM_SHA256 -> 32
      [] OTHER -> 0

\* a ^ b on two uint8_t
XorByte(a, b) == BitsValue(XorBits(LsbBits(a, 8), LsbBits(b, 8)))

\* calculate_crc32: the uint32_t as the 4 bytes it has in a file
calculate_crc32(data) ==
    LET crc == compute_crc32(data)
    IN <<BitsValue(SubSeq(crc, 1, 8)), BitsValue(SubSeq(crc, 9, 16)),
         BitsValue(SubSeq(crc, 17, 24)), BitsValue(SubSeq(crc, 25, 32))>>

\* the loop of calculate_md5 (n = 16) and of calculate_sha256 (n = 32)
RECURSIVE XorFold(_, _, _, _)
XorFold(data, i, n, hash) ==
    IF i >= Len(data) THEN hash
    ELSE XorFold(data, i + 1, n,
                 [hash EXCEPT ![(i % n) + 1] = XorByte(hash[(i % n) + 1], data[i + 1])])

\* calculate_checksum: the bytes of the member of ChecksumData it fills
calculate_checksum(data, type) ==
    CASE type = CHECKSUM_CRC32 -> calculate_crc32(data)
      [] type = CHECKSUM_MD5 -> XorFold(data, 0, 16, Repeat(0, 16))
      [] type = CHECKSUM_SHA256 -> XorFold(data, 0, 32, Repeat(0, 32))
      [] OTHER -> <<>>

\* verify_checksum: 1 when the data has this checksum, or the type has none
verify_checksum(data, checksum, type) ==
    IF type \in {CHECKSUM_CRC32, CHECKSUM_MD5, CHECKSUM_SHA256}
    THEN (IF calculate_checksum(data, type) = checksum THEN 1 ELSE 0)
    ELSE 1

\* header.flags & FLAG_HAS_CHECKSUM
HasChecksum(flags) == (flags \div FLAG_HAS_CHECKSUM) % 2 = 1

\* read_header: the fields are read one after the other, without the padding
read_header(file) ==
    LET fail == [ok |-> FALSE, version |-> 0, algorithm |-> 0, flags |-> 0,
                 block_size |-> 0, total_blocks |-> 0, original_size |-> 0,
                 checksum_type |-> CHECKSUM_NONE, pos |-> 0]
        fixed == 7 + 2 * SizeofUint32 + SizeofUint64
        type == LEValue(ReadAt(file, fixed, SizeofChecksumType))
    IN IF Len(file) < 4 \/ Take(file, 4) # MAGIC_NUMBER THEN fail
       ELSE IF Len(file) < 7 THEN fail
       ELSE IF file[5] > CURRENT_VERSION THEN fail
       ELSE IF Len(file) < fixed THEN fail
       ELSE IF HasChecksum(file[7])
               /\ (\/ Len(file) < fixed + SizeofChecksumType
                   \/ Len(file) < fixed + SizeofChecksumType + get_checksum_size(type))
            THEN fail
       ELSE [ok |-> TRUE, version |-> file[5], algorithm |-> file[6], flags |-> file[7],
             block_size |-> LEValue(ReadAt(file, 7, SizeofUint32)),
             total_blocks |-> LEValue(ReadAt(file, 7 + SizeofUint32, SizeofUint32)),
             original_size |-> LEValue(ReadAt(file, 7 + 2 * SizeofUint32, SizeofUint64)),
             checksum_type |-> IF HasChecksum(file[7]) THEN type ELSE CHECKSUM_NONE,
             pos |-> IF HasChecksum(file[7])
                     THEN fixed + SizeofChecksumType + get_checksum_size(type)
                     ELSE fixed]

\* read_block_header: three uint32 at the file position, then the checksum
\* of the header's type when the container has checksums
read_block_header(file, pos, has_checksum, checksum_type) ==
    LET checksum_size == IF has_checksum THEN get_checksum_size(checksum_type) ELSE 0
        fixed == 3 * SizeofUint32
    IN IF Len(ReadAt(file, pos, fixed + checksum_size)) < fixed + checksum_size
       THEN [ok |-> FALSE, block_id |-> 0, compressed_size |-> 0, original_size |-> 0,
             block_checksum |-> <<>>, pos |-> pos]
       ELSE [ok |-> TRUE,
             block_id |-> LEValue(ReadAt(file, pos, SizeofUint32)),
             compressed_size |-> LEValue(ReadAt(file, pos + SizeofUint32, SizeofUint32)),
             original_size |-> LEValue(ReadAt(file, pos + 2 * SizeofUint32, SizeofUint32)),
             block_checksum |-> ReadAt(file, pos + fixed, checksum_size),
             pos |-> pos + fixed + checksum_size]

\* the scan loop of find_block_location: the position after i..block_id-1,
\* or -1 when a block header cannot be read
RECURSIVE ScanBlocks(_, _, _, _, _)
ScanBlocks(file, header, pos, i, block_id) ==
    IF i >= block_id THEN pos
    ELSE LET h == read_block_header(file, pos, HasChecksum(header.flags),
                                    header.checksum_type)
         IN IF ~h.ok THEN 0 - 1
            ELSE ScanBlocks(file, header, h.pos + h.compressed_size, i + 1, block_id)

\* find_block_location: the file position to read block_id from, -1 on error.
\* context is [fpos, current_pos, last_block_id, header]
find_block_location(file, context, block_id) ==
    LET checksum_space == IF HasChecksum(context.header.flags)
                          THEN SizeofChecksumType
                                   + get_checksum_size(context.header.checksum_type)
                          ELSE 0
        header_size == 4 + 3 + SizeofUint32 * 2 + SizeofUint64 + checksum_space
        block_header_size == SizeofUint32 * 3 + checksum_space
    IN IF block_id >= context.header.total_blocks THEN 0 - 1
       ELSE IF block_id = context.last_block_id + 1 THEN context.fpos
       ELSE IF (context.header.flags \div FLAG_STREAMING_OPTIMIZED) % 2 = 1
            THEN header_size + block_id * (block_header_size + context.header.block_size)
       ELSE ScanBlocks(file, context.header, header_size, 0, block_id)

\* progressive_decompress_block without the checksum verification
DecompressBlockUnverified(file, context, block_id, output_size) ==
    LET fail == [size |-> 0 - 1, output |-> <<>>, context |-> context, temp |-> NoFile]
        located == find_block_location(file, context, block_id)
        has_checksum == HasChecksum(context.header.flags)
        checksum_type == context.header.checksum_type
        block_header == read_block_header(file, located, has_checksum, checksum_type)
        block_buffer == ReadAt(file, block_header.pos, block_header.compressed_size)
    IN IF block_id >= context.header.total_blocks THEN fail
       ELSE IF located < 0 THEN fail
       ELSE IF ~block_header.ok THEN fail
       ELSE IF block_header.block_id # block_id THEN fail
       ELSE IF output_size < block_header.original_size THEN fail
       ELSE IF Len(block_buffer) # block_header.compressed_size THEN fail
       ELSE [size |-> Min(block_header.original_size, Len(file)),
             \* the bytes are copied from the start of context->filename
             output |-> Take(file, block_header.original_size),
             context |-> [context EXCEPT !.fpos = block_header.pos + block_header.compressed_size,
                                         !.current_pos = block_header.pos + block_header.compressed_size,
                                         !.last_block_id = block_id],
             temp |-> block_buffer]

\* progressive_decompress_block: the returned size (-1 on error), the bytes
\* put into the output buffer, the context afterwards and temp_input.dat
progressive_decompress_block(file, context, block_id, output_size) ==
    LET fail == [size |-> 0 - 1, output |-> <<>>, context |-> context, temp |-> NoFile]
        located == find_block_location(file, context, block_id)
        has_checksum == HasChecksum(context.header.flags)
        checksum_type == context.header.checksum_type
        block_header == read_block_header(file, located, has_checksum, checksum_type)
        block_buffer == ReadAt(file, block_header.pos, block_header.compressed_size)
    IN IF block_id >= context.header.total_blocks THEN fail
       ELSE IF located < 0 THEN fail
       ELSE IF ~block_header.ok THEN fail
       ELSE IF block_header.block_id # block_id THEN fail
       ELSE IF output_size < block_header.original_size THEN fail
       ELSE IF Len(block_buffer) # block_header.compressed_size THEN fail
       ELSE IF has_checksum
               /\ verify_checksum(block_buffer, block_header.block_checksum,
                                   checksum_type) = 0
            THEN fail
       ELSE [size |-> Min(block_header.original_size, Len(file)),
             \* the bytes are copied from the start of context->filename
             output |-> Take(file, block_header.original_size),
             context |-> [context EXCEPT !.fpos = block_header.pos + block_header.compressed_size,
                                         !.current_pos = block_header.pos + block_header.compressed_size,
                                         !.last_block_id = block_id],
             temp |-> block_buffer]

\* the block loop of progressive_decompress_range
RECURSIVE RangeLoop(_, _, _, _, _, _)
RangeLoop(file, context, block_id, end_block, written, temp) ==
    IF block_id > end_block THEN [success |-> 1, out |-> written, temp |-> temp]
    ELSE LET d == progressive_decompress_block(file, context, block_id,
                      context.header.block_size * 2)
         IN IF d.size < 0 THEN [success |-> 0, out |-> written, temp |-> temp]
            ELSE RangeLoop(file, d.context, block_id + 1, end_block,
                           written \o d.output, d.temp)

\* progressive_decompress_range on the files: the result and the files after
progressive_decompress_range(files, input_file, output_file, start_block, end_block) ==
    LET file == files[input_file]
        header == read_header(file)
        context == [fpos |-> header.pos, current_pos |-> header.pos,
                    last_block_id |-> 0 - 1, header |-> header]
        r == RangeLoop(file, context, start_block, end_block, <<>>, files[TEMP_INPUT_FILE])
    IN IF ~Exists(files, input_file) \/ ~header.ok THEN [rc |-> 0, files |-> files]
       ELSE IF start_block > end_block \/ end_block >= header.total_blocks
            THEN [rc |-> 0, files |-> files]
       ELSE [rc |-> r.success,
             files |-> [files EXCEPT ![output_file] = r.out, ![TEMP_INPUT_FILE] = r.temp]]

\* the name without its ".prog", <<>> when it does not end in ".prog"
OriginalFilename(input_file) ==
    LET len == Len(input_file)
        ext_len == Len(DotProg)
    IN IF len > ext_len /\ SubSeq(input_file, len - ext_len + 1, len) = DotProg
       THEN SubSeq(input_file, 1, len - ext_len)
       ELSE <<>>

\* progressive_decompress_file on the files: the result and the files after
progressive_decompress_file(files, input_file, output_file) ==
    LET original_filename == OriginalFilename(input_file)
    IN IF original_filename = <<>> THEN [rc |-> 0, files |-> files]
       ELSE IF ~Exists(files, original_filename) THEN [rc |-> 0, files |-> files]
       ELSE [rc |-> 1, files |-> [files EXCEPT ![output_file] = files[original_filename]]]

\* filecompressor -c -P -o <container> a, then -d -P [-R a-b] -o out <container>
InitProgressive ==
    /\ LargeIdle
    /\ GlobalsIdle
    /\ algorithm = PROGRESSIVE
    /\ opt_goal = OPT_NONE
    /\ in_file \in Inputs
    /\ packed_file = NoFile
    /\ out_file = NoFile
    /\ result_c = NoResult
    /\ result_d = NoResult
    /\ stage = "input"
    /\ fs = [p \in Paths |-> IF p = InputName THEN in_file ELSE NoFile]
    /\ \E c \in ContainerNames, a \in 0..MaxBlock, b \in 0..MaxBlock :
           prog = [container |-> c, start_block |-> a, end_block |-> b]
    /\ ParallelIdle
    /\ SplitIdle
    /\ DedupIdle
    /\ MainIdle

ProgressiveCompress ==
    /\ stage = "input"
    /\ LET r == progressive_compress_file(fs[InputName], CHECKSUM_NONE)
       IN /\ fs' = [fs EXCEPT ![prog.container] = r.out]
          /\ result_c' = r.rc
    /\ stage' = "compressed"
    /\ UNCHANGED <<algorithm, opt_goal, in_file, packed_file, out_file, result_d, prog>>
    /\ UNCHANGED notProgressiveVars

ProgressiveDecompressFile ==
    /\ stage = "compressed"
    /\ LET r == progressive_decompress_file(fs, prog.container, OutputName)
       IN /\ fs' = r.files
          /\ result_d' = r.rc
    /\ stage' = "decompressed"
    /\ UNCHANGED <<algorithm, opt_goal, in_file, packed_file, out_file, result_c, prog>>
    /\ UNCHANGED notProgressiveVars

ProgressiveDecompressRange ==
    /\ stage = "compressed"
    /\ LET r == progressive_decompress_range(fs, prog.container, OutputName,
                                             prog.start_block, prog.end_block)
       IN /\ fs' = r.files
          /\ result_d' = r.rc
    /\ stage' = "ranged"
    /\ UNCHANGED <<algorithm, opt_goal, in_file, packed_file, out_file, result_c, prog>>
    /\ UNCHANGED notProgressiveVars

NextProgressive ==
    \/ ProgressiveCompress
    \/ ProgressiveDecompressFile
    \/ ProgressiveDecompressRange

SpecProgressive == InitProgressive /\ [][NextProgressive]_vars

\* the number of blocks of a container built over data
TotalBlocks(data) == (Len(data) + DEFAULT_BLOCK_SIZE - 1) \div DEFAULT_BLOCK_SIZE

\* C5: after range decompression of blocks a..b, with 0 <= a <= b <
\* total_blocks, of the container built over in_file with block size B, the
\* call reports success and the output file holds exactly the bytes
\* in_file[a*B .. min((b+1)*B, |in_file|)).
C5_ProgressiveRange ==
    (/\ stage = "ranged"
     /\ prog.start_block <= prog.end_block
     /\ prog.end_block < TotalBlocks(in_file))
        => /\ result_d = 1
           /\ fs[OutputName] = SubSeq(in_file, prog.start_block * DEFAULT_BLOCK_SIZE + 1,
                                      Min((prog.end_block + 1) * DEFAULT_BLOCK_SIZE, Len(in_file)))

\* C6: after full decompression of the container built over in_file, the
\* call reports success and the output file holds exactly in_file, whatever
\* the container is called.
C6_ProgressiveFull ==
    stage = "decompressed" => (result_d = 1 /\ fs[OutputName] = in_file)

\* ==================================================== split archive
\* split_archive.c, split_archive.h.  Part k of the archive is the file
\* <base>.part<k>; parts[k] holds its bytes, NoFile when there is no such file.
SPLIT_ARCHIVE_MAGIC == <<83, 80, 76, 84>>
MAX_SPLIT_FILES == 9999
\* sizeof(ArchivePartHeader) on the x86-64 build: 4 bytes of padding before
\* part_size and 4 at the end
SizeofArchivePartHeader == 72

\* the 1 MB of MIN_SPLIT_SIZE and of DEFAULT_CHUNK_SIZE, and the largest
\* part size asked for
MinSplit == 2
ChunkBytes == 2
MaxPartSize == 4
MIN_SPLIT_SIZE == MinSplit
DEFAULT_CHUNK_SIZE == ChunkBytes

\* every index of the algorithms table
AlgorithmIndices == 0..7

\* what a malloc'ed buffer of n bytes may hold before it is written
Uninitialized(n) == {s \in SeqsUpTo(Alphabet, n) : Len(s) = n}

ArchivePartHeaderBytes(part_number, total_parts, part_size, total_size, checksum_type) ==
    SPLIT_ARCHIVE_MAGIC
        \o LEBytes(part_number, SizeofUint32)
        \o LEBytes(total_parts, SizeofUint32)
        \o Repeat(0, 4)
        \o LEBytes(part_size, SizeofUint64)
        \o LEBytes(total_size, SizeofUint64)
        \o LEBytes(checksum_type, SizeofInt)
        \o Repeat(0, 32)
        \o Repeat(0, 4)

\* the chunk loop of one part: what is written after the header.  The
\* return value of compress_buffer is only compared with 0 from below.
RECURSIVE CompressPartChunks(_, _, _, _)
CompressPartChunks(algorithm_index, part_data, buffer_size, compressed_buffer) ==
    IF part_data = <<>> THEN [ok |-> TRUE, out |-> <<>>]
    ELSE LET input_buffer == Take(part_data, buffer_size)
             c == compress_buffer(algorithm_index, input_buffer, buffer_size * 2,
                                  compressed_buffer)
         IN IF c.rc < 0 THEN [ok |-> FALSE, out |-> <<>>]
            ELSE LET rest == CompressPartChunks(algorithm_index,
                                 Drop(part_data, buffer_size), buffer_size, c.output)
                 IN [ok |-> rest.ok, out |-> Take(c.output, c.output_size) \o rest.out]

\* the part loop of compress_to_split_archive
RECURSIVE CompressParts(_, _, _, _, _, _, _)
CompressParts(algorithm_index, data, done, current_part, total_parts, part_size_limit, compressed_buffer) ==
    IF current_part > total_parts THEN [ok |-> TRUE, parts |-> <<>>]
    ELSE LET remaining_size == Len(data) - done
             this_part_size == IF remaining_size > part_size_limit
                               THEN part_size_limit ELSE remaining_size
             header == ArchivePartHeaderBytes(current_part, total_parts, this_part_size,
                                              Len(data), CHECKSUM_NONE)
             body == CompressPartChunks(algorithm_index, ReadAt(data, done, this_part_size),
                                        DEFAULT_CHUNK_SIZE, compressed_buffer)
         IN IF ~body.ok THEN [ok |-> FALSE, parts |-> <<header \o body.out>>]
            ELSE LET rest == CompressParts(algorithm_index, data, done + this_part_size,
                                 current_part + 1, total_parts, part_size_limit,
                                 compressed_buffer)
                 IN [ok |-> rest.ok, parts |-> <<header \o body.out>> \o rest.parts]

\* compress_to_split_archive: 0 and the parts, or -1
compress_to_split_archive(data, algorithm_index, requested_part_size, compressed_buffer) ==
    LET part_size == IF requested_part_size < MIN_SPLIT_SIZE
                     THEN MIN_SPLIT_SIZE ELSE requested_part_size
        file_size == Len(data)
        total_parts == (file_size + part_size - 1) \div part_size
        r == CompressParts(algorithm_index, data, 0, 1, total_parts, part_size,
                           compressed_buffer)
    IN IF file_size <= 0 THEN [rc |-> 0 - 1, parts |-> <<>>]
       ELSE IF total_parts > MAX_SPLIT_FILES THEN [rc |-> 0 - 1, parts |-> <<>>]
       ELSE [rc |-> IF r.ok THEN 0 ELSE 0 - 1, parts |-> r.parts]

\* the chunk loop over the data of one part
RECURSIVE DecompressPartChunks(_, _, _, _)
DecompressPartChunks(algorithm_index, part_data, buffer_size, decompressed_buffer) ==
    IF part_data = <<>> THEN [ok |-> TRUE, out |-> <<>>]
    ELSE LET compressed_buffer == Take(part_data, buffer_size)
             d == decompress_buffer(algorithm_index, compressed_buffer, buffer_size,
                                    decompressed_buffer)
         IN IF d.rc < 0 THEN [ok |-> FALSE, out |-> <<>>]
            ELSE LET rest == DecompressPartChunks(algorithm_index,
                                 Drop(part_data, buffer_size), buffer_size, d.output)
                 IN [ok |-> rest.ok, out |-> Take(d.output, d.output_size) \o rest.out]

\* the part loop of decompress_from_split_archive
RECURSIVE DecompressParts(_, _, _, _, _)
DecompressParts(algorithm_index, files, part, total_parts, decompressed_buffer) ==
    IF part > total_parts THEN [ok |-> TRUE, out |-> <<>>]
    ELSE IF part > Len(files) \/ files[part] = NoFile THEN [ok |-> FALSE, out |-> <<>>]
    ELSE LET body == DecompressPartChunks(algorithm_index,
                         Drop(files[part], SizeofArchivePartHeader),
                         DEFAULT_CHUNK_SIZE, decompressed_buffer)
         IN IF ~body.ok THEN [ok |-> FALSE, out |-> body.out]
            ELSE LET rest == DecompressParts(algorithm_index, files, part + 1,
                                             total_parts, decompressed_buffer)
                 IN [ok |-> rest.ok, out |-> body.out \o rest.out]

\* decompress_from_split_archive: 0 or -1, and the output file
decompress_from_split_archive(files, algorithm_index, decompressed_buffer) ==
    IF Len(files) < 1 \/ files[1] = NoFile THEN [rc |-> 0 - 1, out |-> NoFile]
    ELSE IF Len(files[1]) < SizeofArchivePartHeader THEN [rc |-> 0 - 1, out |-> NoFile]
    ELSE IF Take(files[1], 4) # SPLIT_ARCHIVE_MAGIC THEN [rc |-> 0 - 1, out |-> NoFile]
    ELSE LET total_parts == LEValue(ReadAt(files[1], 8, SizeofUint32))
             r == DecompressParts(algorithm_index, files, 1, total_parts,
                                  decompressed_buffer)
         IN [rc |-> IF r.ok THEN 0 ELSE 0 - 1, out |-> r.out]

\* filecompressor -c -A -M <size> -a <index>, then -d -A -a <index>
InitSplit ==
    /\ LargeIdle
    /\ GlobalsIdle
    /\ algorithm \in AlgorithmIndices
    /\ opt_goal = OPT_NONE
    /\ in_file \in Inputs
    /\ packed_file = NoFile
    /\ out_file = NoFile
    /\ result_c = NoResult
    /\ result_d = NoResult
    /\ stage = "input"
    /\ parts = <<>>
    /\ max_part_size \in 1..MaxPartSize
    /\ ParallelIdle
    /\ ProgressiveIdle
    /\ DedupIdle
    /\ MainIdle

SplitCompress ==
    /\ stage = "input"
    /\ \E compressed_buffer \in Uninitialized(DEFAULT_CHUNK_SIZE * 2) :
           LET r == compress_to_split_archive(in_file, algorithm, max_part_size,
                                              compressed_buffer)
           IN /\ parts' = r.parts
              /\ result_c' = r.rc
    /\ stage' = "compressed"
    /\ UNCHANGED <<algorithm, opt_goal, in_file, packed_file, out_file, result_d, max_part_size>>
    /\ UNCHANGED notSplitVars

SplitDecompress ==
    /\ stage = "compressed"
    /\ \E decompressed_buffer \in Uninitialized(DEFAULT_CHUNK_SIZE) :
           LET r == decompress_from_split_archive(parts, algorithm, decompressed_buffer)
           IN /\ out_file' = r.out
              /\ result_d' = r.rc
    /\ stage' = "decompressed"
    /\ UNCHANGED <<algorithm, opt_goal, in_file, packed_file, result_c, parts, max_part_size>>
    /\ UNCHANGED notSplitVars

NextSplit == SplitCompress \/ SplitDecompress

SpecSplit == InitSplit /\ [][NextSplit]_vars

\* C7: for every non-empty input, every index of the algorithms table and
\* every maximum part size, compressing to a split archive and decoding its
\* parts 1..N in order both succeed and the output file equals the input.
C7_SplitRoundTrip ==
    stage = "decompressed" => (result_c = 0 /\ result_d = 0 /\ out_file = in_file)

\* ===================================================== deduplication
\* deduplication.c, deduplication.h.  The chunk hash is the one selected
\* with -H 2 (DEDUP_HASH_CRC32) and the chunking is DEDUP_MODE_FIXED.
SHA_DIGEST_LENGTH == 20
DEDUP_HASH_CRC32 == 2
DEDUP_MODE_FIXED == 0
DedupMagic == <<68, 69, 68, 85, 80>>

\* the 4096 bytes of MIN_DEDUP_CHUNK_SIZE and the 1 MB of
\* MAX_DEDUP_CHUNK_SIZE, and the number of whole chunks of an input
MinDedupChunk == 5
MaxDedupChunk == 6
MaxChunks == 2
MIN_DEDUP_CHUNK_SIZE == MinDedupChunk
MAX_DEDUP_CHUNK_SIZE == MaxDedupChunk
DEFAULT_DEDUP_CHUNK_SIZE == MinDedupChunk

\* chunks the inputs are made of; the first two have the same CRC32
ChunkPool == {<<0, 0, 0, 0, 0>>, <<1, 150, 48, 7, 119>>, <<1, 1, 1, 1, 1>>}
ChunkTails == {<<>>, <<0>>, <<1, 0>>}

RECURSIVE ChunkSeqs(_)
ChunkSeqs(n) ==
    IF n = 0 THEN {<<>>}
    ELSE {c \o s : c \in ChunkPool, s \in ChunkSeqs(n - 1)}

DedupInputs ==
    {s \o t : s \in UNION {ChunkSeqs(n) : n \in 1..MaxChunks}, t \in ChunkTails}

\* compute_hash for DEDUP_HASH_CRC32: memcpy of the crc, then zeros
compute_hash(data) ==
    LET crc == compute_crc32(data)
    IN <<BitsValue(SubSeq(crc, 1, 8)), BitsValue(SubSeq(crc, 9, 16)),
         BitsValue(SubSeq(crc, 17, 24)), BitsValue(SubSeq(crc, 25, 32))>>
           \o Repeat(0, SHA_DIGEST_LENGTH - 4)

get_hash_index(hash) == hash[1] * 256 + hash[2]

\* init_deduplication: the chunk size put into current_chunk_size
ClampChunkSize(chunk_size) ==
    IF chunk_size < MIN_DEDUP_CHUNK_SIZE THEN MIN_DEDUP_CHUNK_SIZE
    ELSE IF chunk_size > MAX_DEDUP_CHUNK_SIZE THEN MAX_DEDUP_CHUNK_SIZE
    ELSE chunk_size

\* The hash table is kept as the sequence of all its entries, newest first:
\* the chain of a bucket is the entries with that index, in this order.
\* the position of the first entry of the chain of 'hash' with this hash and
\* size, from position k on; 0 when there is none
RECURSIVE FindChunk(_, _, _, _)
FindChunk(table, hash, size, k) ==
    IF k > Len(table) THEN 0
    ELSE IF /\ get_hash_index(table[k].hash) = get_hash_index(hash)
            /\ table[k].hash = hash
            /\ table[k].size = size
         THEN k
         ELSE FindChunk(table, hash, size, k + 1)

\* table with ref_count of entry k incremented
RECURSIVE BumpRefCount(_, _)
BumpRefCount(table, k) ==
    IF k = 1 THEN <<[hash |-> table[1].hash, offset |-> table[1].offset,
                     size |-> table[1].size, ref_count |-> table[1].ref_count + 1]>>
                      \o Tail(table)
    ELSE <<Head(table)>> \o BumpRefCount(Tail(table), k - 1)

\* add_chunk: 1 and the table for a duplicate, 0 and the table with the new chunk
add_chunk(table, data, offset) ==
    LET hash == compute_hash(data)
        k == FindChunk(table, hash, Len(data), 1)
    IN IF k # 0 THEN [result |-> 1, table |-> BumpRefCount(table, k)]
       ELSE [result |-> 0,
             table |-> <<[hash |-> hash, offset |-> offset, size |-> Len(data),
                          ref_count |-> 1]>> \o table]

\* first pass of deduplicate_file: the hash table and the index file
RECURSIVE FirstPass(_, _, _, _, _)
FirstPass(data, offset, chunk_size_limit, table, index_file) ==
    IF offset >= Len(data) THEN [table |-> table, index_file |-> index_file]
    ELSE LET bytes_to_read == IF offset + chunk_size_limit > Len(data)
                              THEN Len(data) - offset ELSE chunk_size_limit
             buffer == ReadAt(data, offset, bytes_to_read)
             a == add_chunk(table, buffer, offset)
         IN FirstPass(data, offset + Len(buffer), chunk_size_limit, a.table,
                      Append(index_file, [offset |-> offset, chunk_size |-> Len(buffer),
                                          result |-> a.result]))

\* the chain walk of the second pass
RECURSIVE LookupOriginal(_, _, _, _, _, _)
LookupOriginal(table, hash, chunk_size, chunk_offset, k, original_offset) ==
    IF k > Len(table) THEN original_offset
    ELSE IF /\ get_hash_index(table[k].hash) = get_hash_index(hash)
            /\ table[k].hash = hash
            /\ table[k].size = chunk_size
         THEN IF table[k].offset # chunk_offset THEN table[k].offset
              ELSE LookupOriginal(table, hash, chunk_size, chunk_offset, k + 1,
                                  table[k].offset)
         ELSE LookupOriginal(table, hash, chunk_size, chunk_offset, k + 1, original_offset)

\* second pass of deduplicate_file: the chunk records
RECURSIVE SecondPass(_, _, _, _)
SecondPass(data, table, index_file, i) ==
    IF i > Len(index_file) THEN <<>>
    ELSE LET e == index_file[i]
             buffer == ReadAt(data, e.offset, e.chunk_size)
         IN LEBytes(e.chunk_size, SizeofSizeT)
                \o (IF e.result # 0
                    THEN <<1>> \o LEBytes(LookupOriginal(table, compute_hash(buffer),
                                              e.chunk_size, e.offset, 1, 0), SizeofUint64)
                    ELSE <<0>> \o buffer)
                \o SecondPass(data, table, index_file, i + 1)

\* compress_file_with_algorithm for the whole-file codecs: the codec's own
\* return value, 0 for an index outside the table
compress_file_with_algorithm(data, algorithm_index, goal) ==
    IF algorithm_index < 0 \/ algorithm_index > PROGRESSIVE THEN [rc |-> 0, out |-> NoFile]
    ELSE CodecCompress(algorithm_index, data, goal)

\* deduplicate_file: 0 or -1, the deduplicated stream, the output file as it
\* is left, and the hash table
deduplicate_file(data, algorithm_index, chunk_size_limit, table, goal) ==
    LET file_size == Len(data)
        \* the return after compress_file_with_algorithm, or after the rename
        FinishDedup(first, stream, c) ==
            IF algorithm_index >= 0
            THEN [rc |-> IF c.rc # 0 THEN 0 - 1 ELSE 0, stream |-> stream,
                  out |-> c.out, table |-> first.table]
            ELSE [rc |-> 0, stream |-> stream, out |-> stream, table |-> first.table]
        CompressTemp(first, stream) ==
            FinishDedup(first, stream, compress_file_with_algorithm(stream, algorithm_index, goal))
        \* the temporary file: header, then the second pass
        WriteTemp(first) ==
            CompressTemp(first, DedupMagic \o LEBytes(file_size, SizeofUint64)
                                \o LEBytes(Len(first.index_file), SizeofUint64)
                                \o SecondPass(data, first.table, first.index_file, 1))
    IN WriteTemp(FirstPass(data, 0, chunk_size_limit, table, <<>>))

\* the algorithm_index handed to deduplicate_file: none, or a whole-file codec
DedupCodecs == {0 - 1} \cup PrimitiveCodecs

\* filecompressor -c <index> -D -H 2 -C <size> <file>
InitDedup ==
    /\ LargeIdle
    /\ GlobalsIdle
    /\ algorithm \in DedupCodecs
    /\ opt_goal = OPT_NONE
    /\ in_file \in DedupInputs
    /\ packed_file = NoFile
    /\ out_file = NoFile
    /\ result_c = NoResult
    /\ result_d = NoResult
    /\ stage = "input"
    /\ dedup_chunk_size \in (MinDedupChunk - 1)..(MaxDedupChunk + 1)
    /\ current_chunk_size = DEFAULT_DEDUP_CHUNK_SIZE
    /\ hash_table = <<>>
    /\ dedup_stream = NoFile
    /\ ParallelIdle
    /\ ProgressiveIdle
    /\ SplitIdle
    /\ MainIdle

InitDeduplication ==
    /\ stage = "input"
    /\ current_chunk_size' = ClampChunkSize(dedup_chunk_size)
    /\ hash_table' = <<>>
    /\ stage' = "initialized"
    /\ UNCHANGED <<algorithm, opt_goal, in_file, packed_file, out_file, result_c, result_d>>
    /\ UNCHANGED <<dedup_chunk_size, dedup_stream>>
    /\ UNCHANGED notDedupVars

DeduplicateFile ==
    /\ stage = "initialized"
    /\ \E r \in {deduplicate_file(in_file, algorithm, current_chunk_size, hash_table, opt_goal)} :
          /\ result_c' = r.rc
          /\ dedup_stream' = r.stream
          /\ packed_file' = r.out
          /\ hash_table' = r.table
    /\ stage' = "deduplicated"
    /\ UNCHANGED <<algorithm, opt_goal, in_file, out_file, result_d>>
    /\ UNCHANGED <<dedup_chunk_size, current_chunk_size>>
    /\ UNCHANGED notDedupVars

CleanupDeduplication ==
    /\ stage = "deduplicated"
    /\ hash_table' = <<>>
    /\ stage' = "cleaned"
    /\ UNCHANGED <<algorithm, opt_goal, in_file, packed_file, out_file, result_c, result_d>>
    /\ UNCHANGED <<dedup_chunk_size, current_chunk_size, dedup_stream>>
    /\ UNCHANGED notDedupVars

NextDedup == InitDeduplication \/ DeduplicateFile \/ CleanupDeduplication

SpecDedup == InitDedup /\ [][NextDedup]_vars

\* the chunk records of a deduplicated stream from offset pos on, each with
\* the offset of its chunk in the original file
RECURSIVE DedupRecords(_, _, _)
DedupRecords(stream, pos, chunk_offset) ==
    IF pos + SizeofSizeT + 1 > Len(stream) THEN <<>>
    ELSE LET chunk_size == LEValue(ReadAt(stream, pos, SizeofSizeT))
             is_ref == stream[pos + SizeofSizeT + 1]
             body == pos + SizeofSizeT + 1
         IN IF is_ref = 1
            THEN <<[chunk_offset |-> chunk_offset, chunk_size |-> chunk_size, is_ref |-> 1,
                    original_offset |-> LEValue(ReadAt(stream, body, SizeofUint64)),
                    data |-> <<>>]>>
                     \o DedupRecords(stream, body + SizeofUint64, chunk_offset + chunk_size)
            ELSE <<[chunk_offset |-> chunk_offset, chunk_size |-> chunk_size, is_ref |-> 0,
                    original_offset |-> chunk_offset,
                    data |-> ReadAt(stream, body, chunk_size)]>>
                     \o DedupRecords(stream, body + chunk_size, chunk_offset + chunk_size)

\* the bytes a record stands for: its own, or those of the literal record
\* stored at the offset it refers to
RecordBytes(records, i) ==
    IF records[i].is_ref = 0 THEN records[i].data
    ELSE LET stored == {j \in 1..Len(records) :
                           /\ records[j].is_ref = 0
                           /\ records[j].chunk_offset = records[i].original_offset}
         IN IF stored = {} THEN <<>> ELSE records[CHOOSE j \in stored : TRUE].data

RECURSIVE Reconstruct(_, _)
Reconstruct(records, i) ==
    IF i > Len(records) THEN <<>>
    ELSE RecordBytes(records, i) \o Reconstruct(records, i + 1)

\* C8: the deduplicated stream written for in_file reconstructs in_file
\* when literal chunks are copied and reference chunks are replaced by the
\* chunk stored at the recorded offset; every reference names the offset of
\* the first earlier chunk with the same bytes and size, and that chunk is
\* stored as a literal.
C8_DedupRoundTrip ==
    stage = "deduplicated" =>
        LET records == DedupRecords(dedup_stream, Len(DedupMagic) + 2 * SizeofUint64, 0)
            Chunk(i) == ReadAt(in_file, records[i].chunk_offset, records[i].chunk_size)
        IN /\ Reconstruct(records, 1) = in_file
           /\ \A i \in 1..Len(records) :
                  records[i].is_ref = 1 =>
                      \E j \in 1..(i - 1) :
                          /\ records[j].chunk_offset = records[i].original_offset
                          /\ records[j].is_ref = 0
                          /\ Chunk(j) = Chunk(i)
                          /\ \A k \in 1..(j - 1) : Chunk(k) # Chunk(i)

\* ======================================================= main
\* filecompressor.c.  The command line is taken as parsed: cmd holds the
\* flags, algorithm the algorithm_index (-1 when none was given).  The
\* operations themselves are taken by their return statements: each one
\* either succeeds or fails and returns one of the values it can return
\* in that case.
SIGABRT_STATUS == 134
SIGSEGV_STATUS == 139

\* get_algorithm(index) != NULL
ValidAlgorithm(index) == index >= 0 /\ index <= PROGRESSIVE

CommandLines ==
    [compress_mode : {0, 1},
     deduplication_enabled : BOOLEAN,
     split_mode : BOOLEAN,
     progressive_mode : BOOLEAN,
     range_specified : BOOLEAN,
     large_file_mode : BOOLEAN,
     output_given : BOOLEAN,
     \* index of the algorithm whose extension the input name ends in, or -1
     input_extension : {0 - 1, HUFFMAN, RLE}]

\* the dispatch of lines 525-566
SelectedOperation(c) ==
    IF c.compress_mode = 1
    THEN IF c.deduplication_enabled THEN "deduplicate_file"
         ELSE IF c.split_mode THEN "compress_to_split_archive"
         ELSE IF c.progressive_mode THEN "progressive_compress_file"
         ELSE IF c.large_file_mode THEN "compress_large_file"
         ELSE "compress_file_with_algorithm"
    ELSE IF c.split_mode THEN "decompress_from_split_archive"
         ELSE IF c.progressive_mode /\ c.range_specified THEN "progressive_decompress_range"
         ELSE IF c.progressive_mode THEN "progressive_decompress_file"
         ELSE IF c.large_file_mode THEN "decompress_large_file"
         ELSE "decompress_file_with_algorithm"

\* what an operation returns when it succeeds
SuccessValues(operation, index) ==
    IF operation \in {"progressive_compress_file", "progressive_decompress_range",
                      "progressive_decompress_file"} THEN {1}
    ELSE IF operation \in {"compress_file_with_algorithm", "decompress_file_with_algorithm"}
         THEN IF index = PROGRESSIVE THEN {1} ELSE {0}
    ELSE {0}

\* what an operation returns when it fails
FailureValues(operation, index) ==
    IF operation \in {"deduplicate_file", "compress_to_split_archive",
                      "decompress_from_split_archive"} THEN {0 - 1}
    ELSE IF operation \in {"progressive_compress_file", "progressive_decompress_range",
                           "progressive_decompress_file"} THEN {0}
    ELSE IF operation \in {"compress_large_file", "decompress_large_file"} THEN {1}
    \* the wrapper returns 0 when it cannot open a file, else the codec's value
    ELSE IF index = PROGRESSIVE THEN {0} ELSE {0, 1}

\* free() of a pointer into argv or into the stack array auto_output_file
FreeOutcomes == {"returns", "SIGABRT", "SIGSEGV"}

\* the return statements of lines 606-612
ExitStatus(c, index, value) ==
    IF c.deduplication_enabled THEN (IF value # 0 THEN 1 ELSE 0)
    ELSE IF (index = 1 \/ index = 3) /\ value = 0 THEN 0
    ELSE IF value # 0 THEN 0 ELSE 1

InitMain ==
    /\ LargeIdle
    /\ GlobalsIdle
    /\ cmd \in CommandLines
    /\ algorithm \in (0 - 1)..PROGRESSIVE
    \* -P sets algorithm_index to PROGRESSIVE, a later -c <index> replaces it
    /\ cmd.progressive_mode => ValidAlgorithm(algorithm)
    /\ opt_goal = OPT_NONE
    /\ in_file = <<>>
    /\ packed_file = NoFile
    /\ out_file = NoFile
    /\ result_c = NoResult
    /\ result_d = NoResult
    /\ stage = "input"
    /\ result = 0
    /\ op_ok = FALSE
    /\ exit_code = NoResult
    /\ encryption_key = DefaultKey
    /\ ParallelIdle
    /\ ProgressiveIdle
    /\ SplitIdle
    /\ DedupIdle

\* lines 449-521: the checks after parsing, the generated output name and
\* the look-up of the algorithm
MainPrepare ==
    /\ stage = "input"
    /\ IF cmd.range_specified /\ ~cmd.progressive_mode
       THEN /\ exit_code' = 1
            /\ stage' = "exited"
            /\ UNCHANGED algorithm
       ELSE IF ~cmd.output_given /\ cmd.compress_mode = 1 /\ ~ValidAlgorithm(algorithm)
       \* algorithm->extension with algorithm == NULL
       THEN /\ exit_code' = SIGSEGV_STATUS
            /\ stage' = "exited"
            /\ UNCHANGED algorithm
       ELSE LET index == IF /\ ~cmd.output_given
                            /\ cmd.compress_mode = 0
                            /\ cmd.input_extension >= 0
                         THEN cmd.input_extension ELSE algorithm
            IN /\ algorithm' = index
               /\ IF ~cmd.progressive_mode /\ ~ValidAlgorithm(index)
                  THEN exit_code' = 1 /\ stage' = "exited"
                  ELSE exit_code' = exit_code /\ stage' = "prepared"
    /\ UNCHANGED <<opt_goal, in_file, packed_file, out_file, result_c, result_d>>
    /\ UNCHANGED <<cmd, result, op_ok, encryption_key>>
    /\ UNCHANGED notMainVars

\* lines 525-566: the selected operation runs and returns
MainOperation ==
    /\ stage = "prepared"
    /\ \/ /\ op_ok' = TRUE
          /\ result' \in SuccessValues(SelectedOperation(cmd), algorithm)
       \/ /\ op_ok' = FALSE
          /\ result' \in FailureValues(SelectedOperation(cmd), algorithm)
    /\ stage' = "returned"
    /\ UNCHANGED <<algorithm, opt_goal, in_file, packed_file, out_file, result_c, result_d>>
    /\ UNCHANGED <<cmd, exit_code, encryption_key>>
    /\ UNCHANGED notMainVars

\* lines 573-612: the messages, free(output_file) and the return value
MainExit ==
    /\ stage = "returned"
    /\ IF cmd.deduplication_enabled
       THEN exit_code' = ExitStatus(cmd, algorithm, result)
       ELSE \E outcome \in FreeOutcomes :
                exit_code' = CASE outcome = "returns" -> ExitStatus(cmd, algorithm, result)
                               [] outcome = "SIGABRT" -> SIGABRT_STATUS
                               [] outcome = "SIGSEGV" -> SIGSEGV_STATUS
    /\ stage' = "exited"
    /\ UNCHANGED <<algorithm, opt_goal, in_file, packed_file, out_file, result_c, result_d>>
    /\ UNCHANGED <<cmd, result, op_ok, encryption_key>>
    /\ UNCHANGED notMainVars

NextMain == MainPrepare \/ MainOperation \/ MainExit

SpecMain == InitMain /\ [][NextMain]_vars

\* C9: for every algorithm index and every mode, when the process has
\* exited its exit code is 0 exactly when the selected operation ran and
\* reported success.
C9_ExitCodeIffSuccess ==
    stage = "exited" => (exit_code = 0 <=> op_ok)

\* ============================================== RLE, long runs (rle.c)
\* run lengths around one and two times MAX_RUN, RunSlack to either side
RunSlack == 2
LongRuns == {k * MAX_RUN + d : k \in 1..2, d \in (0 - RunSlack)..RunSlack}
RunEdges == {<<>>, <<0>>, <<1>>}

\* the short inputs, the empty one included, and inputs with one long run
RleInputs ==
    SeqsUpTo(Alphabet, MaxLen)
        \cup {pre \o Repeat(b, n) \o post :
                 pre \in RunEdges, b \in Alphabet, n \in LongRuns, post \in RunEdges}

\* filecompressor -c 1 <file>, then -d 1
InitRle ==
    /\ LargeIdle
    /\ GlobalsIdle
    /\ algorithm = RLE
    /\ opt_goal = OPT_NONE
    /\ in_file \in RleInputs
    /\ packed_file = NoFile
    /\ out_file = NoFile
    /\ result_c = NoResult
    /\ result_d = NoResult
    /\ stage = "input"
    /\ ParallelIdle
    /\ ProgressiveIdle
    /\ SplitIdle
    /\ DedupIdle
    /\ MainIdle

SpecRle == InitRle /\ [][NextCodec]_vars

\* the counts of the runs written after the size field
RunCounts(file) ==
    {file[SizeofLong + 2 * i - 1] : i \in 1..((Len(file) - SizeofLong) \div 2)}

\* C11: for every byte sequence X, also one with a run of more than 255
\* identical bytes, RLE decompression of the RLE compression of X yields
\* exactly X, and every run the compressor wrote has a count in 1..255.
C11_RleRoundTrip ==
    (algorithm = RLE /\ stage = "decompressed")
        => /\ result_c = 0
           /\ result_d = 0
           /\ out_file = in_file
           /\ RunCounts(packed_file) \subseteq 1..255

\* a run of more than 255 bytes was split and decoded
C11_LongRunDecoded ==
    /\ algorithm = RLE
    /\ stage = "decompressed"
    /\ \E i \in 1..(Len(in_file) - 255) : \A j \in i..(i + 255) : in_file[j] = in_file[i]
    /\ 255 \in RunCounts(packed_file)
    /\ out_file = in_file

\* ================================ split archive, part files disturbed
\* Between compression and decompression a part file is deleted, or two
\* part files change names with each other.
WorkingBufferCodecs == {HUFFMAN, RLE}

\* header.part_number of a part file
PartNumber(file) == LEValue(ReadAt(file, 4, SizeofUint32))

\* some part file is absent, or the file at position p is not part p
PartsDisturbed ==
    \E p \in 1..Len(parts) : parts[p] = NoFile \/ PartNumber(parts[p]) # p

InitSplitDisturbed ==
    /\ LargeIdle
    /\ GlobalsIdle
    /\ algorithm \in WorkingBufferCodecs
    /\ opt_goal = OPT_NONE
    /\ in_file \in Inputs
    /\ packed_file = NoFile
    /\ out_file = NoFile
    /\ result_c = NoResult
    /\ result_d = NoResult
    /\ stage = "input"
    /\ parts = <<>>
    /\ max_part_size \in 1..MaxPartSize
    /\ ParallelIdle
    /\ ProgressiveIdle
    /\ DedupIdle
    /\ MainIdle

\* rm <base>.part<p>
RemovePart ==
    /\ stage = "compressed"
    /\ result_c = 0
    /\ ~PartsDisturbed
    /\ \E p \in 1..Len(parts) : parts' = [parts EXCEPT ![p] = NoFile]
    /\ UNCHANGED codecVars
    /\ UNCHANGED max_part_size
    /\ UNCHANGED notSplitVars

\* <base>.part<p> and <base>.part<q> renamed into each other
SwapParts ==
    /\ stage = "compressed"
    /\ result_c = 0
    /\ ~PartsDisturbed
    /\ \E p \in 1..Len(parts) : \E q \in (p + 1)..Len(parts) :
           parts' = [parts EXCEPT ![p] = parts[q], ![q] = parts[p]]
    /\ UNCHANGED codecVars
    /\ UNCHANGED max_part_size
    /\ UNCHANGED notSplitVars

NextSplitDisturbed == SplitCompress \/ RemovePart \/ SwapParts \/ SplitDecompress

SpecSplitDisturbed == InitSplitDisturbed /\ [][NextSplitDisturbed]_vars

\* C12: split-archive decompression fails whenever, for some p in
\* 1..total_parts, the file of part p is absent or the file found at
\* position p is not part p of the archive (its header names another part).
C12_MissingPartDetected ==
    (stage = "decompressed" /\ PartsDisturbed) => result_d # 0

\* the half of C12 about an absent part file
C12_AbsentPartDetected ==
    (stage = "decompressed" /\ \E p \in 1..Len(parts) : parts[p] = NoFile) => result_d # 0

\* ================================== progressive container with checksums
\* Containers laid out as read_header and read_block_header read them (the
\* layout of write_header), with FLAG_HAS_CHECKSUM set; one block may carry
\* a checksum that does not match its data.
ChecksumTypes == {CHECKSUM_CRC32, CHECKSUM_MD5, CHECKSUM_SHA256}
Damages == {"checksum", "data"}

HeaderFields(algorithm_index, flags, block_size, total_blocks, original_size, checksum_type, checksum) ==
    MAGIC_NUMBER \o <<CURRENT_VERSION, algorithm_index, flags>>
        \o LEBytes(block_size, SizeofUint32)
        \o LEBytes(total_blocks, SizeofUint32)
        \o LEBytes(original_size, SizeofUint64)
        \o (IF HasChecksum(flags) /\ get_checksum_size(checksum_type) > 0
            THEN LEBytes(checksum_type, SizeofChecksumType) \o checksum
            ELSE <<>>)

\* a byte other than b
OtherByte(b) == (b + 1) % 256

\* the blocks block_id.. over data; block bad_block is damaged
RECURSIVE BlockFields(_, _, _, _, _)
BlockFields(data, block_id, checksum_type, bad_block, damage) ==
    IF block_id * DEFAULT_BLOCK_SIZE >= Len(data) THEN <<>>
    ELSE LET block == ReadAt(data, block_id * DEFAULT_BLOCK_SIZE, DEFAULT_BLOCK_SIZE)
             sum == calculate_checksum(block, checksum_type)
             damaged == block_id = bad_block
             stored == IF damaged /\ damage = "checksum"
                       THEN <<OtherByte(Head(sum))>> \o Tail(sum) ELSE sum
             bytes == IF damaged /\ damage = "data"
                      THEN <<OtherByte(Head(block))>> \o Tail(block) ELSE block
         IN LEBytes(block_id, SizeofUint32)
                \o LEBytes(Len(block), SizeofUint32)
                \o LEBytes(Len(block), SizeofUint32)
                \o stored \o bytes
                \o BlockFields(data, block_id + 1, checksum_type, bad_block, damage)

CheckedContainer(data, checksum_type, bad_block, damage) ==
    HeaderFields(HUFFMAN, FLAG_HAS_CHECKSUM, DEFAULT_BLOCK_SIZE,
                 (Len(data) + DEFAULT_BLOCK_SIZE - 1) \div DEFAULT_BLOCK_SIZE, Len(data),
                 checksum_type, calculate_checksum(data, checksum_type))
        \o BlockFields(data, 0, checksum_type, bad_block, damage)

CheckedName == <<"a">> \o DotProg

\* filecompressor -d -P -R a-b -o out a.prog on such a container
InitProgressiveChecked ==
    /\ LargeIdle
    /\ GlobalsIdle
    /\ algorithm = PROGRESSIVE
    /\ opt_goal = OPT_NONE
    /\ in_file \in Inputs
    /\ packed_file = NoFile
    /\ out_file = NoFile
    /\ result_c = 1
    /\ result_d = NoResult
    /\ stage = "compressed"
    /\ \E type \in ChecksumTypes, a \in 0..MaxBlock, b \in 0..MaxBlock, damage \in Damages :
         \E bad \in (0 - 1)..(((Len(in_file) + DEFAULT_BLOCK_SIZE - 1) \div DEFAULT_BLOCK_SIZE) - 1) :
           /\ prog = [container |-> CheckedName, start_block |-> a, end_block |-> b,
                      checksum_type |-> type, bad_block |-> bad, damage |-> damage]
           /\ fs = [p \in Paths |->
                       IF p = InputName THEN in_file
                       ELSE IF p = CheckedName
                       THEN CheckedContainer(in_file, type, bad, damage)
                       ELSE NoFile]
    /\ ParallelIdle
    /\ SplitIdle
    /\ DedupIdle
    /\ MainIdle

NextProgressiveChecked == ProgressiveDecompressRange

SpecProgressiveChecked == InitProgressiveChecked /\ [][NextProgressiveChecked]_vars

\* what a request for blocks a..b of the container leaves in the output file
RangeOutput(a, b) ==
    IF a > b THEN <<>>
    ELSE progressive_decompress_range(fs, prog.container, OutputName, a, b).files[OutputName]

C13_IntactAccepted ==
    (/\ stage = "ranged"
     /\ prog.bad_block = 0 - 1
     /\ prog.start_block <= prog.end_block
     /\ prog.end_block < TotalBlocks(in_file))
        => result_d = 1

\* ================================= decoders on arbitrary compressed files
\* filecompressor -d <index> <file> on a file that no compressor of this
\* program need have written: a size field and up to StreamLen more bytes
MaxStreamByte == 2
StreamLen == 6
MaxOriginal == 3
StreamBodies == SeqsUpTo(0..MaxStreamByte, StreamLen)
Streams == {LEBytes(n, SizeofLong) \o body : n \in 0..MaxOriginal, body \in StreamBodies}

InitStream ==
    /\ LargeIdle
    /\ GlobalsIdle
    /\ algorithm \in PrimitiveCodecs
    /\ opt_goal = OPT_NONE
    /\ in_file = NoFile
    /\ packed_file \in Streams
    /\ out_file = NoFile
    /\ result_c = NoResult
    /\ result_d = NoResult
    /\ stage = "compressed"
    /\ ParallelIdle
    /\ ProgressiveIdle
    /\ SplitIdle
    /\ DedupIdle
    /\ MainIdle

NextStream == Decompress

SpecStream == InitStream /\ [][NextStream]_vars

\* the size field of a compressed file
StoredSize(file) == LEValue(Take(file, SizeofLong))

\* the position after the serialized tree that starts at pos, -1 when the
\* file ends inside it
RECURSIVE TreeEnd(_, _)
TreeEnd(file, pos) ==
    IF pos > Len(file) THEN 0 - 1
    ELSE IF file[pos] = 0
    THEN LET after_left == TreeEnd(file, pos + 1)
         IN IF after_left < 0 THEN 0 - 1 ELSE TreeEnd(file, after_left)
    ELSE IF pos + 1 > Len(file) THEN 0 - 1 ELSE pos + 2

\* truncated, or a root that is a leaf
MalformedTree(file) ==
    \/ TreeEnd(file, SizeofLong + 1) < 0
    \/ file[SizeofLong + 1] # 0

\* C14: Huffman decompression of a file whose serialized tree is truncated
\* or has a leaf as root returns the failure value 1: it neither reports
\* success nor steps to a child that is not there.
C14_MalformedTreeRejected ==
    (algorithm = HUFFMAN /\ stage = "decompressed" /\ MalformedTree(packed_file))
        => result_d = 1

\* the sum of the counts of the (count, byte) pairs from pos on
RECURSIVE RunsTotal(_, _)
RunsTotal(file, pos) ==
    IF pos + 1 > Len(file) THEN 0 ELSE file[pos] + RunsTotal(file, pos + 2)

C15_SizeWritten ==
    (algorithm = RLE /\ stage = "decompressed" /\ result_d = 0)
        => Len(out_file) = StoredSize(packed_file)

\* whether the tokens from in_pos (0-based) on hold a match token with offset
\* 0, an offset beyond the bytes produced so far, or a length that goes
\* beyond size; with 'whole' the tokens after the output is complete count too
RECURSIVE BadMatch(_, _, _, _, _)
BadMatch(input, in_pos, produced, size, whole) ==
    IF in_pos >= Len(input) THEN FALSE
    ELSE IF produced >= size /\ ~whole THEN FALSE
    ELSE IF input[in_pos + 1] = 1
    THEN IF in_pos + 4 > Len(input) THEN FALSE
         ELSE LET offset == input[in_pos + 2] * 256 + input[in_pos + 3]
                  length == input[in_pos + 4]
              IN IF offset = 0 \/ offset > produced \/ produced + length > size THEN TRUE
                 ELSE BadMatch(input, in_pos + 4, produced + length, size, whole)
    ELSE IF in_pos + 2 > Len(input) THEN FALSE
         ELSE BadMatch(input, in_pos + 2, Min(produced + 1, size), size, whole)

\* C16: the LZ77 decoder rejects every match token it reaches before the
\* output is complete whose offset is 0 or greater than the number of bytes
\* produced so far, or whose length goes beyond original_size, and writes no
\* output file then; it never writes more than original_size bytes.
C16_Lz77MatchChecked ==
    (algorithm = LZ77 /\ stage = "decompressed")
        => /\ (BadMatch(Drop(packed_file, SizeofSizeT), 0, 0, StoredSize(packed_file), FALSE)
                  => (result_d = 1 /\ out_file = NoFile))
           /\ (result_d = 0 => Len(out_file) <= StoredSize(packed_file))

\* a match token with a bad offset or length was reached and refused
C16_BadMatchRefused ==
    /\ algorithm = LZ77
    /\ stage = "decompressed"
    /\ Len(packed_file) >= SizeofSizeT + 6
    /\ packed_file[SizeofSizeT + 1] # 1
    /\ packed_file[SizeofSizeT + 3] = 1
    /\ BadMatch(Drop(packed_file, SizeofSizeT), 0, 0, StoredSize(packed_file), FALSE)
    /\ result_d = 1

\* C16 as stated, for every match token of the stream, read or not
C16_EveryMatchChecked ==
    (/\ algorithm = LZ77
     /\ stage = "decompressed"
     /\ BadMatch(Drop(packed_file, SizeofSizeT), 0, 0, StoredSize(packed_file), TRUE))
        => result_d = 1

\* ------------------------------------------------------- the empty input
\* every codec, run on its own (the worker pool idle) or through the
\* parallel driver, on the short inputs and on the empty one
EmptyInputs == SeqsUpTo(Alphabet, MaxLen)

\* the parallel driver runs here on the machines with more than one core
WorkerPoolUsed == num_cores > 1

InitEmpty ==
    /\ LargeIdle
    /\ GlobalsIdle
    /\ algorithm \in PrimitiveCodecs
    /\ opt_goal \in OptimizationGoal
    /\ in_file \in EmptyInputs
    /\ packed_file = NoFile
    /\ out_file = NoFile
    /\ result_c = NoResult
    /\ result_d = NoResult
    /\ stage = "input"
    /\ \/ ParallelIdle
       \/ /\ thread_count \in 0..MaxThreads
          /\ num_cores \in 2..MaxCores
          /\ chunks = <<>>
          /\ batch = [current_chunk |-> 0, current_batch_size |-> 0, num_threads |-> 0]
          /\ io_fault = FALSE
    /\ ProgressiveIdle
    /\ SplitIdle
    /\ DedupIdle
    /\ MainIdle

\* the codec's own compress and decompress when the driver is not used,
\* compress_file_parallel and decompress_file_parallel when it is

NextEmpty ==
    \/ ~WorkerPoolUsed /\ NextCodec
    \/ WorkerPoolUsed /\ NextParallel

SpecEmpty == InitEmpty /\ [][NextEmpty]_vars

\* C17: for an empty input file, compression with every codec (Huffman, RLE,
\* LZ77, alone or through the parallel driver) succeeds, and the matching
\* decompressor accepts the output and decodes it to zero bytes.
C17_EmptyInputRoundTrip ==
    /\ (Len(in_file) = 0 /\ stage \in {"compressed", "decompressed"}) => result_c = 0
    /\ (Len(in_file) = 0 /\ stage = "decompressed") => (result_d = 0 /\ out_file = <<>>)

\* the part of C17 that holds: RLE alone writes the eight bytes of the size 0
\* and its decompressor gives back the empty file
C17_EmptyRle ==
    (Len(in_file) = 0 /\ algorithm = RLE /\ ~WorkerPoolUsed /\ stage = "decompressed")
        => (result_c = 0 /\ packed_file = LEBytes(0, SizeofLong)
            /\ result_d = 0 /\ out_file = <<>>)

\* -------------------------------------------------------------- encryption
\* uint8_t buffer[4096] of encrypt_file and decrypt_file
SizeofBuffer == 4096
\* "ENCRYPTED"
EncryptedHeader == <<69, 78, 67, 82, 89, 80, 84, 69, 68>>

\* encrypt_buffer: the return value and the buffer after the call; key is a
\* C string, key_length its strlen
encrypt_buffer(buffer, key) ==
    IF Len(key) = 0 THEN [rc |-> 1, buffer |-> buffer]
    ELSE [rc |-> 0,
          buffer |-> [i \in 1..Len(buffer) |->
                         XorByte(buffer[i], key[((i - 1) % Len(key)) + 1])]]

decrypt_buffer(buffer, key) == encrypt_buffer(buffer, key)

\* the loop of encrypt_file with the whole file in one buffer: the key index
\* runs on over the 4096-byte boundaries
EncryptChunksUnaligned(data, key) ==
    IF data = <<>> THEN <<>> ELSE encrypt_buffer(data, key).buffer

\* the fread loop of encrypt_file: each buffer of up to 4096 bytes goes
\* through encrypt_buffer, whose return value is dropped
RECURSIVE EncryptChunks(_, _)
EncryptChunks(data, key) ==
    IF data = <<>> THEN <<>>
    ELSE encrypt_buffer(Take(data, SizeofBuffer), key).buffer
             \o EncryptChunks(Drop(data, SizeofBuffer), key)

RECURSIVE DecryptChunks(_, _)
DecryptChunks(data, key) ==
    IF data = <<>> THEN <<>>
    ELSE decrypt_buffer(Take(data, SizeofBuffer), key).buffer
             \o DecryptChunks(Drop(data, SizeofBuffer), key)

\* encrypt_file on the bytes of the input file (NoFile: fopen fails)
encrypt_file(data, key) ==
    IF data = NoFile THEN [rc |-> 1, out |-> NoFile]
    ELSE [rc |-> 0, out |-> EncryptedHeader \o EncryptChunks(data, key)]

\* decrypt_file: the output is created before the header is read
decrypt_file(file, key) ==
    IF file = NoFile THEN [rc |-> 1, out |-> NoFile]
    ELSE IF Len(file) < Len(EncryptedHeader)
            \/ Take(file, Len(EncryptedHeader)) # EncryptedHeader
    THEN [rc |-> 1, out |-> <<>>]
    ELSE [rc |-> 0, out |-> DecryptChunks(Drop(file, Len(EncryptedHeader)), key)]

\* set_encryption_key: the static after the call
set_encryption_key(current, key) == IF Len(key) > 0 THEN key ELSE current

\* keys: C strings of up to MaxKeyLen bytes, the empty one included
MaxKeyLen == 3
KeyBytes == {1, 255}
Keys == SeqsUpTo(KeyBytes, MaxKeyLen)

\* file lengths around one and two buffers
BufferEdges == {SizeofBuffer - 1, SizeofBuffer + 1, 2 * SizeofBuffer + 1}
LongFile(n) == [i \in 1..n |-> i % (MaxByte + 1)]
CryptInputs == SeqsUpTo(Alphabet, MaxLen) \cup {LongFile(n) : n \in BufferEdges}

InitCrypt ==
    /\ LargeIdle
    /\ GlobalsIdle
    /\ algorithm = LZ77
    /\ opt_goal = OPT_NONE
    /\ in_file \in CryptInputs
    /\ packed_file = NoFile
    /\ out_file = NoFile
    /\ result_c = NoResult
    /\ result_d = NoResult
    /\ stage = "input"
    /\ cmd = [compress_mode |-> 0, deduplication_enabled |-> FALSE, split_mode |-> FALSE,
              progressive_mode |-> FALSE, range_specified |-> FALSE,
              large_file_mode |-> FALSE, output_given |-> FALSE,
              input_extension |-> 0 - 1]
    /\ result = 0
    /\ op_ok = FALSE
    /\ exit_code = NoResult
    /\ encryption_key \in Keys
    /\ ParallelIdle
    /\ ProgressiveIdle
    /\ SplitIdle
    /\ DedupIdle

SetEncryptionKey ==
    /\ stage = "input"
    /\ \E key \in Keys : encryption_key' = set_encryption_key(encryption_key, key)
    /\ UNCHANGED <<codecVars, cmd, result, op_ok, exit_code>>
    /\ UNCHANGED notMainVars

EncryptFile ==
    /\ stage = "input"
    /\ \E r \in {encrypt_file(in_file, encryption_key)} :
           /\ packed_file' = r.out
           /\ result_c' = r.rc
    /\ stage' = "encrypted"
    /\ UNCHANGED <<algorithm, opt_goal, in_file, out_file, result_d>>
    /\ UNCHANGED <<mainVars, notMainVars>>

DecryptFile ==
    /\ stage = "encrypted"
    /\ \E r \in {decrypt_file(packed_file, encryption_key)} :
           /\ out_file' = r.out
           /\ result_d' = r.rc
    /\ stage' = "decrypted"
    /\ UNCHANGED <<algorithm, opt_goal, in_file, packed_file, result_c>>
    /\ UNCHANGED <<mainVars, notMainVars>>

NextCrypt == SetEncryptionKey \/ EncryptFile \/ DecryptFile

SpecCrypt == InitCrypt /\ [][NextCrypt]_vars

\* C18: for any byte sequence X of any length (also one that is no multiple
\* of the key length or of the 4096-byte buffer) and any key of at least one
\* byte, decrypting with the key the file that encrypting X with it produced
\* gives exactly X.
C18_EncryptRoundTrip ==
    (stage = "decrypted" /\ Len(encryption_key) >= 1)
        => (result_c = 0 /\ result_d = 0 /\ out_file = in_file)

\* a file longer than one buffer, its length and the buffer size no multiples
\* of the key length, encrypted to something else and decrypted back
C18_LongFileDecrypted ==
    /\ stage = "decrypted"
    /\ Len(in_file) > SizeofBuffer
    /\ Len(encryption_key) > 1
    /\ Len(in_file) % Len(encryption_key) # 0
    /\ SizeofBuffer % Len(encryption_key) # 0
    /\ encryption_key[1] # encryption_key[Len(encryption_key)]
    /\ Drop(packed_file, Len(EncryptedHeader)) # in_file
    /\ out_file = in_file

\* C19: an encrypt or decrypt request with an empty key is rejected: the
\* operation returns failure and no output file is reported as produced.
C19_EmptyKeyRejected ==
    /\ (stage \in {"encrypted", "decrypted"} /\ encryption_key = <<>>) => result_c # 0
    /\ (stage = "decrypted" /\ encryption_key = <<>>) => result_d # 0

\* what the code does with an empty key: encrypt_buffer refuses, encrypt_file
\* drops its return value, writes the header and the plain bytes and returns 0
C19_EmptyKeyCopies ==
    (stage = "decrypted" /\ encryption_key = <<>>)
        => (encrypt_buffer(in_file, encryption_key).rc = 1
            /\ result_c = 0 /\ packed_file = EncryptedHeader \o in_file
            /\ result_d = 0 /\ out_file = in_file)

\* ----------------------------------------- the life of a ProgressiveContext
\* what the caller's ProgressiveContext* refers to: nothing, a struct of
\* zeros that progressive_init never filled, a context that progressive_init
\* returned, or the memory of one that progressive_free has released
ContextHandles == {"NULL", "zeroed", "open", "freed"}

\* memset(context, 0, sizeof(ProgressiveContext))
ZeroContext ==
    [fpos |-> 0, current_pos |-> 0, last_block_id |-> 0, initialized |-> 0,
     header |-> [ok |-> FALSE, version |-> 0, algorithm |-> 0, flags |-> 0,
                 block_size |-> 0, total_blocks |-> 0, original_size |-> 0,
                 checksum_type |-> CHECKSUM_NONE, pos |-> 0]]

\* progressive_init: NULL when the file cannot be opened or its header is not
\* read, else the context with its header loaded and initialized = 1
progressive_init(files, filename) ==
    LET header == read_header(files[filename])
    IN IF ~Exists(files, filename) \/ ~header.ok
       THEN [handle |-> "NULL", context |-> ZeroContext]
       ELSE [handle |-> "open",
             context |-> [fpos |-> header.pos, current_pos |-> header.pos,
                          last_block_id |-> 0 - 1, initialized |-> 1, header |-> header]]

\* progressive_decompress_block reads context->initialized and context->file
\* of released memory when the context was freed: the call returns -1 or the
\* process is killed
FreedOutcomes == {"error", "SIGSEGV"}

\* a call of progressive_decompress_block with the caller's pointer: what
\* the call can come to, and the context afterwards
DecodeCalls(files, filename, handle, context, block_id) ==
    IF handle = "NULL" THEN {[outcome |-> "error", context |-> context]}
    ELSE IF handle = "freed"
    THEN {[outcome |-> o, context |-> context] : o \in FreedOutcomes}
    ELSE IF context.initialized = 0 THEN {[outcome |-> "error", context |-> context]}
    ELSE LET d == progressive_decompress_block(files[filename], context, block_id,
                                               context.header.block_size * 2)
         IN {[outcome |-> IF d.size < 0 THEN "error" ELSE "decoded",
              context |-> d.context]}

MissingName == <<"b">> \o DotProg

InitContext ==
    /\ LargeIdle
    /\ GlobalsIdle
    /\ algorithm = PROGRESSIVE
    /\ opt_goal = OPT_NONE
    /\ in_file \in Inputs
    /\ packed_file = NoFile
    /\ out_file = NoFile
    /\ result_c = 1
    /\ result_d = NoResult
    /\ stage = "compressed"
    /\ \E type \in ChecksumTypes, name \in {CheckedName, MissingName},
          handle \in {"NULL", "zeroed"} :
         /\ prog = [container |-> name, handle |-> handle, context |-> ZeroContext,
                    called_on |-> "none", outcome |-> "none"]
         /\ fs = [p \in Paths |->
                     IF p = InputName THEN in_file
                     ELSE IF p = CheckedName
                     THEN CheckedContainer(in_file, type, 0 - 1, "data")
                     ELSE NoFile]
    /\ ParallelIdle
    /\ SplitIdle
    /\ DedupIdle
    /\ MainIdle

\* context = progressive_init(filename)
ContextInit ==
    /\ stage = "compressed"
    /\ prog.outcome # "SIGSEGV"
    /\ LET r == progressive_init(fs, prog.container)
       IN prog' = [prog EXCEPT !.handle = r.handle, !.context = r.context]
    /\ stage' = "initialized"
    /\ UNCHANGED <<algorithm, opt_goal, in_file, packed_file, out_file, result_c, result_d>>
    /\ UNCHANGED fs
    /\ UNCHANGED notProgressiveVars

\* progressive_decompress_block(context, block_id, output, output_size)
ContextDecode(block_id) ==
    /\ prog.outcome # "SIGSEGV"
    /\ \E r \in DecodeCalls(fs, prog.container, prog.handle, prog.context, block_id) :
           prog' = [prog EXCEPT !.context = r.context, !.called_on = prog.handle,
                                !.outcome = r.outcome]
    /\ UNCHANGED codecVars
    /\ UNCHANGED fs
    /\ UNCHANGED notProgressiveVars

\* progressive_free(context): nothing for NULL; the caller's pointer keeps
\* its value
ContextFree ==
    /\ prog.outcome # "SIGSEGV"
    /\ prog.handle \in {"NULL", "open"}
    /\ prog' = [prog EXCEPT !.handle = IF prog.handle = "open" THEN "freed" ELSE "NULL"]
    /\ UNCHANGED codecVars
    /\ UNCHANGED fs
    /\ UNCHANGED notProgressiveVars

NextContext == ContextInit \/ (\E b \in 0..MaxBlock : ContextDecode(b)) \/ ContextFree

SpecContext == InitContext /\ [][NextContext]_vars

\* C20: a block decode succeeds only on a context whose header a successful
\* open has loaded and that has not been closed; a decode call on an
\* uninitialized or closed context returns an error without decoding; once
\* a context is closed no operation makes it usable again.
C20_DecodeNeedsOpenContext ==
    /\ prog.outcome = "decoded" => prog.called_on = "open"
    /\ prog.called_on \in {"NULL", "zeroed", "freed"} => prog.outcome = "error"

\* the parts of C20 that hold: success only on an open context, an error
\* return on NULL and on a context never initialized
C20_SuccessOnlyWhenOpen ==
    /\ prog.outcome = "decoded" => (prog.called_on = "open" /\ prog.context.initialized = 1)
    /\ prog.called_on \in {"NULL", "zeroed"} => prog.outcome = "error"

\* and no operation leads from a freed context to another one
C20_ClosedIsTerminal == [][prog.handle = "freed" => prog'.handle = "freed"]_vars

\* ---------------------------------------------- the streaming Huffman decoder
\* the frequency table of a piece of data, over the bytes that occur in it
FrequencyOf(data) == [c \in BytesOf(data) |-> CountOf(data, c)]

\* the insert loop of build_huffman_tree_from_freq over i = 0..size-1
RECURSIVE FreqHeap(_, _, _, _)
FreqHeap(freq, present, nodes, arr) ==
    IF present = {} THEN [nodes |-> nodes, arr |-> arr]
    ELSE LET c == SetMin(present)
             nodes2 == Append(nodes, create_node(c, freq[c]))
         IN FreqHeap(freq, present \ {c}, nodes2, insert_min_heap(nodes2, arr, Len(nodes2)))

\* build_huffman_tree_from_freq on a table with at least one frequency above
\* 0: a lone character hangs to the left of a fresh root
build_huffman_tree_from_freq(freq) ==
    LET heap == FreqHeap(freq, {c \in DOMAIN freq : freq[c] > 0}, <<>>, <<>>)
        done == MergeLoop(heap.nodes, heap.arr)
    IN IF Len(heap.arr) = 1
       THEN [nodes |-> Append(heap.nodes,
                              [create_node(DollarChar, heap.nodes[heap.arr[1]].frequency)
                               EXCEPT !.left = heap.arr[1]]),
             root |-> Len(heap.nodes) + 1]
       ELSE [nodes |-> done.nodes, root |-> done.arr[1]]

\* (byte >> bit_pos) & 1
BitOf(byte, bit_pos) == (byte \div (2 ^ bit_pos)) % 2

\* the loops of huffman_decompress_chunk from byte i (0-based) and bit_pos on
RECURSIVE ChunkLoop(_, _, _, _, _, _, _, _)
ChunkLoop(nodes, root, input_data, i, bit_pos, current, output, output_size) ==
    IF i >= Len(input_data)
    THEN [rc |-> 0, output |-> output, bit_pos |-> bit_pos, current |-> current]
    ELSE IF bit_pos >= 8
    THEN IF i + 1 >= Len(input_data)
         THEN [rc |-> 0, output |-> output, bit_pos |-> 0, current |-> current]
         ELSE ChunkLoop(nodes, root, input_data, i + 1, 0, current, output, output_size)
    ELSE LET next == IF BitOf(input_data[i + 1], bit_pos) = 0
                     THEN nodes[current].left ELSE nodes[current].right
         IN IF next = 0
            \* current->left of a NULL current
            THEN [rc |-> CRASH, output |-> output, bit_pos |-> bit_pos + 1, current |-> 0]
            ELSE IF nodes[next].left = 0 /\ nodes[next].right = 0
            THEN IF Len(output) >= output_size
                 THEN [rc |-> 0 - 1, output |-> output, bit_pos |-> bit_pos + 1,
                       current |-> root]
                 ELSE ChunkLoop(nodes, root, input_data, i, bit_pos + 1, root,
                                Append(output, nodes[next].character), output_size)
            ELSE ChunkLoop(nodes, root, input_data, i, bit_pos + 1, next, output,
                           output_size)

\* huffman_decompress_chunk: the return value, the bytes put into
\* output_data (*output_size of them), *bit_pos_ptr and *current_ptr after
\* the call; a NULL current (0) starts at the root
huffman_decompress_chunk(nodes, root, input_data, output_size, bit_pos, current) ==
    ChunkLoop(nodes, root, input_data, 0, bit_pos, IF current = 0 THEN root ELSE current,
              <<>>, output_size)

\* input bytes of the decoder, chunk lengths, output buffer sizes and calls
\* (the tree is built from the frequencies of up to MaxCounted bytes 0..MaxSymbol)
ChunkByteValues == {0, 77, 255}
MaxSymbol == 2
MaxCounted == 3
MaxChunkLen == 2
MaxOutputSize == 3
MaxCalls == 3

InitHuffStream ==
    /\ algorithm = HUFFMAN
    /\ opt_goal = OPT_NONE
    /\ in_file \in {s \in SeqsUpTo(0..MaxSymbol, MaxCounted) : Len(s) >= 1}
    /\ packed_file \in {s \in SeqsUpTo(ChunkByteValues, MaxChunkLen) : Len(s) >= 1}
    /\ out_file = <<>>
    /\ result_c = 0
    /\ result_d = NoResult
    /\ stage = "compressed"
    /\ \E size \in 1..MaxOutputSize :
           lf = [tree |-> build_huffman_tree_from_freq(FrequencyOf(in_file)),
                 output_size |-> size, bit_pos |-> 0, current |-> 0, calls |-> 0]
    /\ ParallelIdle
    /\ ProgressiveIdle
    /\ SplitIdle
    /\ DedupIdle
    /\ MainIdle
    /\ GlobalsIdle

\* the first call of decompress_large_file's loop on a chunk, and the call
\* it repeats on the same chunk, with the saved state and the buffer
\* emptied, when the one before returned "not enough space"
DecompressChunk ==
    /\ stage = "compressed"
    /\ lf.calls < MaxCalls
    /\ lf.calls = 0 \/ result_d = 0 - 1
    /\ \E r \in {huffman_decompress_chunk(lf.tree.nodes, lf.tree.root, packed_file,
                                           lf.output_size, lf.bit_pos, lf.current)} :
           /\ result_d' = r.rc
           /\ out_file' = out_file \o r.output
           /\ lf' = [lf EXCEPT !.bit_pos = r.bit_pos, !.current = r.current,
                               !.calls = lf.calls + 1]
    /\ UNCHANGED <<algorithm, opt_goal, in_file, packed_file, result_c, stage>>
    /\ UNCHANGED notLargeVars

NextHuffStream == DecompressChunk

SpecHuffStream == InitHuffStream /\ [][NextHuffStream]_vars

\* the same chunk decoded in one call into a buffer that holds every symbol
OneCallOutput ==
    huffman_decompress_chunk(lf.tree.nodes, lf.tree.root, packed_file,
                             8 * Len(packed_file), 0, 0).output

\* C21: the streaming decoder tells "output buffer full" from "input
\* exhausted", and when a call that stopped on a full buffer is resumed with
\* the saved state no symbol is lost or emitted twice: the outputs of all
\* calls together are the output of one call with a large enough buffer.
C21_ResumeLosesNothing ==
    (lf.calls >= 1 /\ result_d = 0) => out_file = OneCallOutput

\* the part of C21 that holds: a call returns -1 exactly when it stopped at
\* a symbol that had no room, and a single call that reaches the end of the
\* input returns 0 with the whole output
C21_FullDistinguished ==
    /\ (lf.calls = 1 /\ result_d = 0) => out_file = OneCallOutput
    /\ (lf.calls = 1 /\ result_d = 0 - 1)
           => (Len(out_file) = lf.output_size /\ Len(OneCallOutput) > lf.output_size)

\* ------------------------------------------------- the chunked file reader
\* A LargeFileReader is [fpos, current_position, file_size, chunk_size,
\* eof_reached, checksum_type]; fpos is the position of reader->file.
large_file_reader_init(file, chunk_size, checksum_type) ==
    [fpos |-> 0, current_position |-> 0, file_size |-> Len(file),
     chunk_size |-> IF chunk_size = 0 THEN DEFAULT_CHUNK_SIZE ELSE chunk_size,
     eof_reached |-> 0, checksum_type |-> checksum_type]

\* large_file_reader_next_chunk on a reader with a file: the pointer returned
\* (NoFile for NULL, else the bytes of reader->buffer that were read),
\* *bytes_read, the reader afterwards, and what verify_checksum answered,
\* which goes to stderr only.  A record is the type (1..3, as
\* large_file_writer_write stores it), the checksum, the data length and
\* the data.
large_file_reader_next_chunk(file, reader) ==
    LET null(r) == [chunk |-> NoFile, bytes_read |-> 0, reader |-> r, verified |-> 1]
        short(r) == null([r EXCEPT !.fpos = Len(file)])
        p == reader.fpos
        type == LEValue(ReadAt(file, p, SizeofUint32))
        n == get_checksum_size(type)
        r1 == [reader EXCEPT !.current_position = @ + SizeofUint32]
        r2 == [r1 EXCEPT !.current_position = @ + n]
        r3 == [r2 EXCEPT !.current_position = @ + SizeofUint32]
        data_length == LEValue(ReadAt(file, p + SizeofUint32 + n, SizeofUint32))
        start == p + 2 * SizeofUint32 + n
        to_read == Min(data_length, reader.chunk_size)
        buffer == ReadAt(file, start, to_read)
        after(r, from) ==
            [r EXCEPT !.fpos = from + Len(buffer),
                      !.current_position = @ + Len(buffer),
                      !.eof_reached = IF Len(buffer) < to_read
                                         \/ r.current_position + Len(buffer) >= r.file_size
                                      THEN 1 ELSE 0]
        plain == Min(reader.file_size - reader.current_position, reader.chunk_size)
        plain_buffer == ReadAt(file, p, plain)
    IN IF reader.eof_reached = 1 THEN null(reader)
       ELSE IF reader.checksum_type # CHECKSUM_NONE
       THEN IF Len(file) < p + SizeofUint32 THEN short(reader)
            ELSE IF Len(file) < p + SizeofUint32 + n THEN short(r1)
            ELSE IF Len(file) < start THEN short(r2)
            ELSE IF to_read = 0 \/ to_read > r3.file_size - r3.current_position
            THEN null([r3 EXCEPT !.fpos = start, !.eof_reached = 1])
            ELSE [chunk |-> buffer, bytes_read |-> Len(buffer), reader |-> after(r3, start),
                  verified |-> IF Len(buffer) > 0
                               THEN verify_checksum(buffer, ReadAt(file, p + SizeofUint32, n),
                                                    type)
                               ELSE 1]
       ELSE IF plain = 0 THEN null([reader EXCEPT !.eof_reached = 1])
       ELSE [chunk |-> plain_buffer, bytes_read |-> Len(plain_buffer),
             reader |-> [reader EXCEPT
                            !.fpos = p + Len(plain_buffer),
                            !.current_position = @ + Len(plain_buffer),
                            !.eof_reached =
                                IF Len(plain_buffer) < plain
                                   \/ reader.current_position + Len(plain_buffer)
                                         >= reader.file_size
                                THEN 1 ELSE 0],
             verified |-> 1]

\* what the caller of next_chunk has in hand after the call
CallerView(r) == <<r.chunk, r.bytes_read, r.reader>>

\* one record as large_file_writer_write stores it
FramedRecord(data, type, stored) ==
    IF type = CHECKSUM_NONE THEN data
    ELSE LEBytes(type, SizeofUint32) \o stored \o LEBytes(Len(data), SizeofUint32) \o data

\* records of up to MaxRecordLen bytes, up to MaxRecords of them in a file
MaxRecordLen == 2
MaxRecords == 2
RecordData == {s \in SeqsUpTo(Alphabet, MaxRecordLen) : Len(s) >= 1}

\* the file of the records; record bad (0 for none) has its stored checksum
\* or its first data byte changed after the checksum was taken
RECURSIVE FramedFile(_, _, _, _, _)
FramedFile(records, k, type, bad, damage) ==
    IF k > Len(records) THEN <<>>
    ELSE LET data == records[k]
             sum == calculate_checksum(data, type)
             stored == IF k = bad /\ damage = "checksum" /\ sum # <<>>
                       THEN <<OtherByte(Head(sum))>> \o Tail(sum) ELSE sum
             bytes == IF k = bad /\ damage = "data"
                      THEN <<OtherByte(Head(data))>> \o Tail(data) ELSE data
         IN FramedRecord(bytes, type, stored) \o FramedFile(records, k + 1, type, bad, damage)

\* the file with the checksum of the record at position p replaced by the
\* checksum of the data that is stored there
RepairedAt(file, p, type, data) ==
    Take(file, p + SizeofUint32) \o calculate_checksum(data, type)
        \o Drop(file, p + SizeofUint32 + get_checksum_size(type))

InitReader ==
    /\ algorithm = HUFFMAN
    /\ opt_goal = OPT_NONE
    /\ in_file = <<>>
    /\ \E records \in {r \in SeqsUpTo(RecordData, MaxRecords) : Len(r) >= 1},
          type \in ChecksumTypes \cup {CHECKSUM_NONE},
          damage \in Damages, chunk_size \in {MaxRecordLen, MaxRecordLen + 1} :
         \E bad \in 0..Len(records) :
            /\ packed_file = FramedFile(records, 1, type, bad, damage)
            /\ lf = [reader |-> large_file_reader_init(packed_file, chunk_size, type),
                     calls |-> 0, verified |-> 1, view |-> <<>>, clean_view |-> <<>>]
    /\ out_file = <<>>
    /\ result_c = 0
    /\ result_d = NoResult
    /\ stage = "compressed"
    /\ ParallelIdle
    /\ ProgressiveIdle
    /\ SplitIdle
    /\ DedupIdle
    /\ MainIdle
    /\ GlobalsIdle

\* while ((buffer = large_file_reader_next_chunk(reader, &bytes_read)) != NULL)
\* of a caller that appends every chunk to its output.  clean_view is what
\* the same call gives when the record's checksum fits the data it returns.
ReaderNextChunk ==
    /\ stage = "compressed"
    /\ \E r \in {large_file_reader_next_chunk(packed_file, lf.reader)} :
          \E c \in {IF r.chunk = NoFile \/ lf.reader.checksum_type = CHECKSUM_NONE THEN r
                     ELSE large_file_reader_next_chunk(
                              RepairedAt(packed_file, lf.reader.fpos,
                                         lf.reader.checksum_type, r.chunk),
                              lf.reader)} :
             /\ lf' = [lf EXCEPT !.reader = r.reader, !.calls = lf.calls + 1,
                                 !.verified = r.verified, !.view = CallerView(r),
                                 !.clean_view = CallerView(c)]
             /\ out_file' = IF r.chunk = NoFile THEN out_file ELSE out_file \o r.chunk
             /\ stage' = IF r.chunk = NoFile THEN "read" ELSE stage
    /\ UNCHANGED <<algorithm, opt_goal, in_file, packed_file, result_c, result_d>>
    /\ UNCHANGED notLargeVars

NextReader == ReaderNextChunk

SpecReader == InitReader /\ [][NextReader]_vars

\* C22: when a record's stored checksum does not match the data read for
\* it, next_chunk reports the mismatch in a way its caller can tell apart
\* from a clean read, and returns the data unmodified.
C22_MismatchReported ==
    (lf.calls >= 1 /\ lf.verified = 0)
        => (lf.view # lf.clean_view /\ lf.view[1] # NoFile)

\* the part of C22 that holds: the data of a record that fails the
\* verification is handed over as it is stored, with its length
C22_DataUnmodified ==
    (lf.calls >= 1 /\ lf.verified = 0)
        => /\ lf.view[1] = ReadAt(packed_file, lf.reader.fpos - lf.view[2], lf.view[2])
           /\ lf.view[2] >= 1

\* ------------------------------------------------ the number of workers
\* set_thread_count: what -t leaves in the static thread_count
set_thread_count(count, cores) ==
    IF count > 0 /\ count <= MAX_THREADS THEN count
    ELSE IF count <= 0 THEN get_optimal_threads(cores)
    ELSE MAX_THREADS

\* -t arguments below, at and above the limit, machines with fewer and
\* more processors than MAX_THREADS, files below and above MinChunk bytes
\* for each of MAX_THREADS threads
FewThreads == 2
ManyThreads == 66
ManyCores == 65
BigFile == 129
ThreadRequests == (0 - 1)..FewThreads \cup (MAX_THREADS - 1)..ManyThreads
CoreCounts == 1..MaxCores \cup (MAX_THREADS - 1)..ManyCores
FileSizes == 1..(2 * MinChunk) \cup (MAX_THREADS * MinChunk - 1)..BigFile
ZeroFile(n) == [i \in 1..n |-> 0]

InitThreads ==
    /\ LargeIdle
    /\ GlobalsIdle
    /\ algorithm = RLE
    /\ opt_goal = OPT_NONE
    /\ in_file \in {ZeroFile(n) : n \in FileSizes}
    /\ packed_file = NoFile
    /\ out_file = NoFile
    /\ result_c = NoResult
    /\ result_d = NoResult
    /\ stage = "input"
    /\ thread_count = DEFAULT_THREADS
    /\ num_cores \in CoreCounts
    /\ chunks = <<>>
    /\ batch = [current_chunk |-> 0, current_batch_size |-> 0, num_threads |-> 0]
    /\ io_fault = FALSE
    /\ ProgressiveIdle
    /\ SplitIdle
    /\ DedupIdle
    /\ MainIdle

\* main at -t: set_thread_count(atoi(argv[i + 1]))
SetThreadCount ==
    /\ stage = "input"
    /\ \E count \in ThreadRequests :
          thread_count' = set_thread_count(count, num_cores)
    /\ UNCHANGED codecVars
    /\ UNCHANGED <<num_cores, chunks, batch, io_fault>>
    /\ UNCHANGED notParallelVars

\* decompress_file_parallel up to the allocation of the ChunkInfo array:
\* chunk_count is the number the compressing job wrote in front of the
\* container
SettleDecompressThreads ==
    /\ stage = "compressing"
    /\ batch' = [batch EXCEPT
                   !.num_threads = DecompressPlan(Len(chunks), thread_count, num_cores)]
    /\ stage' = "decompressing"
    /\ UNCHANGED <<algorithm, opt_goal, in_file, packed_file, out_file, result_c, result_d>>
    /\ UNCHANGED <<thread_count, num_cores, chunks, io_fault>>
    /\ UNCHANGED notParallelVars

NextThreads ==
    \/ SetThreadCount
    \/ ParCompressStart
    \/ SettleDecompressThreads

SpecThreads == InitThreads /\ [][NextThreads]_vars

\* what the request resolves to before the size of the job is looked at
ResolvedThreads == Min(IF thread_count <= 0 THEN num_cores ELSE thread_count, MAX_THREADS)

PipelineCommands ==
    {c \in CommandLines : /\ c.compress_mode = 1
                          /\ ~c.range_specified
                          /\ ~c.large_file_mode
                          /\ c.output_given
                          /\ c.input_extension = 0 - 1}

InitPipeline ==
    /\ LargeIdle
    /\ GlobalsIdle
    /\ cmd \in PipelineCommands
    /\ algorithm \in PrimitiveCodecs
    /\ opt_goal = OPT_NONE
    /\ in_file \in DedupInputs
    /\ packed_file = NoFile
    /\ out_file = NoFile
    /\ result_c = NoResult
    /\ result_d = NoResult
    /\ stage = "input"
    /\ result = 0
    /\ op_ok = FALSE
    /\ exit_code = NoResult
    /\ encryption_key = DefaultKey
    /\ parts = <<>>
    /\ max_part_size \in 1..MaxPartSize
    /\ dedup_chunk_size = MinDedupChunk
    /\ current_chunk_size = DEFAULT_DEDUP_CHUNK_SIZE
    /\ hash_table = <<>>
    /\ dedup_stream = NoFile
    /\ ParallelIdle
    /\ ProgressiveIdle

\* main from init_deduplication to the end of the compress branch: the one
\* operation the chain of tests selects runs on the input file and writes
\* the output file (packed_file) or the part files
PipelineCompress ==
    /\ stage = "input"
    /\ IF cmd.deduplication_enabled
       THEN \E r \in {deduplicate_file(in_file, algorithm, ClampChunkSize(dedup_chunk_size),
                                       <<>>, opt_goal)} :
               /\ result' = r.rc
               /\ dedup_stream' = r.stream
               /\ packed_file' = r.out
               /\ current_chunk_size' = ClampChunkSize(dedup_chunk_size)
               /\ UNCHANGED parts
       ELSE IF cmd.split_mode
       THEN \E compressed_buffer \in Uninitialized(DEFAULT_CHUNK_SIZE * 2) :
              \E r \in {compress_to_split_archive(in_file, algorithm, max_part_size,
                                                  compressed_buffer)} :
               /\ result' = r.rc
               /\ parts' = r.parts
               /\ UNCHANGED <<packed_file, dedup_stream, current_chunk_size>>
       ELSE IF cmd.progressive_mode
       THEN \E r \in {progressive_compress_file(in_file, CHECKSUM_NONE)} :
               /\ result' = r.rc
               /\ packed_file' = r.out
               /\ UNCHANGED <<parts, dedup_stream, current_chunk_size>>
       ELSE \E r \in {compress_file_with_algorithm(in_file, algorithm, opt_goal)} :
               /\ result' = r.rc
               /\ packed_file' = r.out
               /\ UNCHANGED <<parts, dedup_stream, current_chunk_size>>
    /\ stage' = "returned"
    /\ UNCHANGED <<algorithm, opt_goal, in_file, out_file, result_c, result_d>>
    /\ UNCHANGED <<cmd, op_ok, exit_code, encryption_key>>
    /\ UNCHANGED <<max_part_size, dedup_chunk_size, hash_table>>
    /\ UNCHANGED <<parallelVars, progressiveVars, largeVars, globalVars>>

NextPipeline == PipelineCompress

SpecPipeline == InitPipeline /\ [][NextPipeline]_vars

\* C24: after a compressing run every stage asked for has been applied:
\* with -D the deduplicated stream has been produced, with -M the part
\* files have been written, with -P (and no -M) the output file is a
\* progressive container
C24_EveryStageApplied ==
    stage = "returned" =>
        /\ cmd.deduplication_enabled => dedup_stream # NoFile
        /\ cmd.split_mode => parts # <<>>
        /\ (cmd.progressive_mode /\ ~cmd.split_mode) =>
               (packed_file # NoFile /\ Take(packed_file, Len(MAGIC_NUMBER)) = MAGIC_NUMBER)

\* the stages that are applied come in the order of the pipeline: with -D
\* the output file is the codec applied to the deduplicated stream
C24_DedupBeforeCodec ==
    (stage = "returned" /\ cmd.deduplication_enabled) =>
        packed_file = compress_file_with_algorithm(dedup_stream, algorithm, opt_goal).out

\* a run with -D and -M has returned success
C24_DedupAndSplitAsked ==
    /\ stage = "returned"
    /\ cmd.deduplication_enabled
    /\ cmd.split_mode
    /\ result = 0

\* ------------------------------- the workers and the codecs' parameters
\* The codec a worker calls begins by storing the parameters of the
\* optimization goal in the file-scope variables and reads them while it
\* encodes.

\* set_huffman_optimization and set_lz77_optimization as thread 'id' runs
\* them; compress_rle has no parameters
StoreOptimization(g, index, goal, id) ==
    CASE index = HUFFMAN -> [g EXCEPT !.MAX_TREE_DEPTH = set_huffman_optimization(goal),
                                       !.stored_by = @ \cup {id}]
      [] index = LZ77 -> [g EXCEPT !.lz77 = set_lz77_optimization(goal),
                                    !.stored_by = @ \cup {id}]
      [] OTHER -> g

\* the codec after the store, with the parameters it finds in the variables
EncodeWithGlobals(index, data, g) ==
    CASE index = HUFFMAN ->
           IF Len(data) = 0 THEN [rc |-> CRASH, out |-> NoFile]
           ELSE LET t == build_huffman_tree(data)
                    codes == generate_codes(t.nodes, t.root, <<>>, NoCodes, g.MAX_TREE_DEPTH)
                IN [rc |-> 0,
                    out |-> LEBytes(Len(data), SizeofLong) \o write_tree(t.nodes, t.root)
                            \o PackBits(CodeBits(data, codes))]
      [] index = LZ77 ->
           LET r == compress_lz77_buffer(data, Len(data) * 2, g.lz77)
           IN IF Len(data) = 0 \/ r.rc # 0 THEN [rc |-> 1, out |-> NoFile]
              ELSE [rc |-> 0, out |-> LEBytes(Len(data), SizeofSizeT) \o r.out]
      [] OTHER -> compress_rle(data)

\* chunk->algorithm->compress up to the end of set_*_optimization
WorkerStoreOptimization(i) ==
    /\ stage = "compressing"
    /\ chunks[i].pc = "prepared"
    /\ codec_globals' = StoreOptimization(codec_globals, algorithm, opt_goal,
                                          chunks[i].thread_id)
    /\ chunks' = [chunks EXCEPT ![i] = [chunks[i] EXCEPT !.pc = "encoding"]]
    /\ UNCHANGED codecVars
    /\ UNCHANGED <<thread_count, num_cores, batch, io_fault>>
    /\ UNCHANGED <<progressiveVars, splitVars, dedupVars, mainVars, largeVars>>

\* the rest of the codec and of compress_chunk_thread
WorkerEncode(i) ==
    /\ stage = "compressing"
    /\ chunks[i].pc = "encoding"
    /\ \E r \in {EncodeWithGlobals(algorithm, chunks[i].temp_input, codec_globals)} :
          chunks' = [chunks EXCEPT ![i] =
              [chunks[i] EXCEPT !.pc = "done", !.rc = r.rc, !.temp_input = NoFile,
                                !.chunk_file = IF r.out = NoFile THEN chunks[i].chunk_file
                                               ELSE r.out]]
    /\ UNCHANGED codecVars
    /\ UNCHANGED <<thread_count, num_cores, batch, io_fault>>
    /\ UNCHANGED notParallelVars

NextWorkers ==
    \/ ParCompressStart
    \/ \E i \in 1..Len(chunks) : CompressWorkerPrepare(i)
    \/ \E i \in 1..Len(chunks) : WorkerStoreOptimization(i)
    \/ \E i \in 1..Len(chunks) : WorkerEncode(i)
    \/ ParCompressCombine

SpecWorkers == InitParallel /\ [][NextWorkers]_vars

\* a worker between its store and the end of its codec call
Encoding(i) == i \in 1..Len(chunks) /\ chunks[i].pc = "encoding"

\* C25: while a worker is executing a codec no step stores to a file-scope
\* variable of the process
C25_NoGlobalStored ==
    [][(\E i \in 1..Len(chunks) : Encoding(i)) => codec_globals' = codec_globals]_vars

\* every worker finds the parameters of the optimization goal when it
\* encodes, whichever workers have stored before it
C25_ParametersOfGoal ==
    \A i \in 1..Len(chunks) :
        Encoding(i) =>
            EncodeWithGlobals(algorithm, chunks[i].temp_input, codec_globals)
                = CodecCompress(algorithm, chunks[i].temp_input, opt_goal)

\* two workers have stored to the variables and one of them is still
\* encoding
C25_StoredWhileEncoding ==
    /\ Cardinality(codec_globals.stored_by) >= 2
    /\ \E i \in 1..Len(chunks) : Encoding(i)

\* ------------------------------------------ the names of temporary files
\* Several processes compress in one working directory; chunks holds the
\* workers of all of them, each with its process, its thread_id and the
\* paths it writes.
DigitChars == <<"0", "1", "2", "3", "4", "5", "6", "7", "8", "9">>

\* printf("%d") of a number that is not negative
RECURSIVE Decimal(_)
Decimal(n) ==
    IF n < 10 THEN <<DigitChars[n + 1]>>
    ELSE Decimal(n \div 10) \o <<DigitChars[(n % 10) + 1]>>

\* create_temp_filename: "%s.chunk%d.tmp"
create_temp_filename(base_path, thread_id) ==
    base_path \o <<".", "c", "h", "u", "n", "k">> \o Decimal(thread_id)
              \o <<".", "t", "m", "p">>

\* compress_chunk_thread: "chunk_input_%d.tmp"
TempInputPath(thread_id) ==
    <<"c", "h", "u", "n", "k", "_", "i", "n", "p", "u", "t", "_">> \o Decimal(thread_id)
        \o <<".", "t", "m", "p">>

\* up to MaxJobs processes with one parallel job each, writing different
\* output files with up to MaxJobThreads workers
MaxJobs == 2
MaxJobThreads == 2
OutputFiles == {<<"x">>, <<"y">>}
JobThreadCounts == 1..MaxJobThreads

InitTempNames ==
    /\ LargeIdle
    /\ GlobalsIdle
    /\ algorithm \in PrimitiveCodecs
    /\ opt_goal = OPT_NONE
    /\ in_file = <<>>
    /\ packed_file = NoFile
    /\ out_file = NoFile
    /\ result_c = NoResult
    /\ result_d = NoResult
    /\ stage = "input"
    /\ ParallelIdle
    /\ ProgressiveIdle
    /\ SplitIdle
    /\ DedupIdle
    /\ MainIdle

JobsStarted == {chunks[w].process : w \in 1..Len(chunks)}
OutputsTaken == {chunks[w].output_file : w \in 1..Len(chunks)}

\* the workers compress_file_parallel launches for output_file
RECURSIVE JobWorkers(_, _, _, _)
JobWorkers(process, output_file, num_threads, i) ==
    IF i >= num_threads THEN <<>>
    ELSE <<[process |-> process, output_file |-> output_file, thread_id |-> i,
            output_path |-> create_temp_filename(output_file, i),
            temp_input_path |-> NoFile, pc |-> "launched"]>>
         \o JobWorkers(process, output_file, num_threads, i + 1)

\* one more process reaches the launch loop of compress_file_parallel
StartJob ==
    /\ Cardinality(JobsStarted) < MaxJobs
    /\ \E output_file \in OutputFiles \ OutputsTaken, num_threads \in JobThreadCounts :
          chunks' = chunks \o JobWorkers(Cardinality(JobsStarted) + 1, output_file,
                                         num_threads, 0)
    /\ UNCHANGED codecVars
    /\ UNCHANGED <<thread_count, num_cores, batch, io_fault>>
    /\ UNCHANGED notParallelVars

\* compress_chunk_thread up to the codec call: both temporary files are
\* open or written
WorkerOpenTemp(w) ==
    /\ chunks[w].pc = "launched"
    /\ chunks' = [chunks EXCEPT ![w] =
          [chunks[w] EXCEPT !.pc = "working",
                            !.temp_input_path = TempInputPath(chunks[w].thread_id)]]
    /\ UNCHANGED codecVars
    /\ UNCHANGED <<thread_count, num_cores, batch, io_fault>>
    /\ UNCHANGED notParallelVars

\* the codec call and remove(temp_input_path)
WorkerCloseTemp(w) ==
    /\ chunks[w].pc = "working"
    /\ chunks' = [chunks EXCEPT ![w] =
          [chunks[w] EXCEPT !.pc = "done", !.temp_input_path = NoFile]]
    /\ UNCHANGED codecVars
    /\ UNCHANGED <<thread_count, num_cores, batch, io_fault>>
    /\ UNCHANGED notParallelVars

NextTempNames ==
    \/ StartJob
    \/ \E w \in 1..Len(chunks) : WorkerOpenTemp(w)
    \/ \E w \in 1..Len(chunks) : WorkerCloseTemp(w)

SpecTempNames == InitTempNames /\ [][NextTempNames]_vars

\* the temporary paths worker w has in use
PathsInUse(w) ==
    IF chunks[w].pc # "working" THEN {}
    ELSE {chunks[w].output_path, chunks[w].temp_input_path}

\* C26: no two workers at work at the same time, of one process or of two,
\* use the same temporary path
C26_TempPathsDistinct ==
    \A w1, w2 \in 1..Len(chunks) :
        w1 # w2 => PathsInUse(w1) \cap PathsInUse(w2) = {}

\* within one process the workers' paths differ
C26_DistinctWithinJob ==
    \A w1, w2 \in 1..Len(chunks) :
        (w1 # w2 /\ chunks[w1].process = chunks[w2].process)
            => PathsInUse(w1) \cap PathsInUse(w2) = {}

\* the workers with thread_id 0 of two processes are at work together
C26_TwoJobsAtWork ==
    \E w1, w2 \in 1..Len(chunks) :
        /\ chunks[w1].process # chunks[w2].process
        /\ chunks[w1].thread_id = 0 /\ chunks[w2].thread_id = 0
        /\ chunks[w1].pc = "working" /\ chunks[w2].pc = "working"

\* -------------------------------- temporary files of the encrypted codec
\* compress_and_encrypt and decrypt_and_decompress work on the files of
\* the directory fs and keep the intermediate file at "<input>.tmp".
DotTmp == <<".", "t", "m", "p">>
EncryptedName == <<"a", ".", "e", "n", "c">>
TempFileOf(input_file) == input_file \o DotTmp
CleanupPaths ==
    {InputName, EncryptedName, OutputName, TempFileOf(InputName), TempFileOf(EncryptedName)}

\* compress_and_encrypt: what it returns and the directory it leaves
compress_and_encrypt(files, input_file, output_file, key, goal) ==
    LET temp_file == TempFileOf(input_file)
        c == IF files[input_file] = NoFile THEN [rc |-> 1, out |-> NoFile]
             ELSE compress_lz77(files[input_file], goal)
    IN IF c.rc # 0 THEN [rc |-> 1, files |-> files]
       ELSE LET e == encrypt_file(c.out, key)
            IN [rc |-> e.rc,
                files |-> [files EXCEPT ![output_file] = e.out, ![temp_file] = NoFile]]

\* decrypt_and_decompress
decrypt_and_decompress(files, input_file, output_file, key) ==
    LET temp_file == TempFileOf(input_file)
        d == decrypt_file(files[input_file], key)
        written == IF d.out = NoFile THEN files ELSE [files EXCEPT ![temp_file] = d.out]
    IN IF d.rc # 0 THEN [rc |-> 1, files |-> written]
       ELSE LET r == decompress_lz77(d.out)
            IN [rc |-> r.rc,
                files |-> [written EXCEPT ![temp_file] = NoFile,
                                          ![output_file] =
                                              IF r.out = NoFile THEN @ ELSE r.out]]

\* the input files: short ones, the empty one included
MaxPlainLen == 3

InitCleanup ==
    /\ LargeIdle
    /\ GlobalsIdle
    /\ algorithm = LZ77
    /\ opt_goal = OPT_NONE
    /\ in_file \in SeqsUpTo(Alphabet, MaxPlainLen)
    /\ packed_file = NoFile
    /\ out_file = NoFile
    /\ result_c = NoResult
    /\ result_d = NoResult
    /\ stage = "input"
    /\ fs = [name \in CleanupPaths |-> IF name = InputName THEN in_file ELSE NoFile]
    /\ prog = [container |-> <<>>, start_block |-> 0, end_block |-> 0]
    /\ cmd = [compress_mode |-> 0, deduplication_enabled |-> FALSE, split_mode |-> FALSE,
              progressive_mode |-> FALSE, range_specified |-> FALSE,
              large_file_mode |-> FALSE, output_given |-> FALSE,
              input_extension |-> 0 - 1]
    /\ result = 0
    /\ op_ok = FALSE
    /\ exit_code = NoResult
    /\ encryption_key \in Keys
    /\ ParallelIdle
    /\ SplitIdle
    /\ DedupIdle

\* filecompressor -c 6 a a.enc
CompressAndEncrypt ==
    /\ stage = "input"
    /\ \E r \in {compress_and_encrypt(fs, InputName, EncryptedName, encryption_key,
                                      opt_goal)} :
          /\ fs' = r.files
          /\ result_c' = r.rc
          /\ packed_file' = r.files[EncryptedName]
    /\ stage' = "compressed"
    /\ UNCHANGED <<algorithm, opt_goal, in_file, out_file, result_d, prog>>
    /\ UNCHANGED notProgressiveVars

\* filecompressor -d 6 on the encrypted file once it is written, or on the
\* plain input file before that
DecryptAndDecompress ==
    /\ stage \in {"input", "compressed"}
    /\ \E r \in {decrypt_and_decompress(fs, IF stage = "input" THEN InputName
                                                               ELSE EncryptedName,
                                         OutputName, encryption_key)} :
          /\ fs' = r.files
          /\ result_d' = r.rc
          /\ out_file' = r.files[OutputName]
    /\ stage' = "decompressed"
    /\ UNCHANGED <<algorithm, opt_goal, in_file, packed_file, result_c, prog>>
    /\ UNCHANGED notProgressiveVars

NextCleanup == CompressAndEncrypt \/ DecryptAndDecompress

SpecCleanup == InitCleanup /\ [][NextCleanup]_vars

TempFilesLeft == {name \in {TempFileOf(InputName), TempFileOf(EncryptedName)} : fs[name] # NoFile}

\* C27: when a job has returned, with success or with failure, no
\* temporary file it created is left in the directory
C27_TempFilesRemoved ==
    stage \in {"compressed", "decompressed"} => TempFilesLeft = {}

\* a job that returns success leaves no temporary file
C27_RemovedOnSuccess ==
    /\ (stage = "compressed" /\ result_c = 0) => TempFilesLeft = {}
    /\ (stage = "decompressed" /\ result_d = 0) => TempFilesLeft = {}

\* decrypt_and_decompress has returned failure on a file without the header
C27_DecryptionFailed ==
    /\ stage = "decompressed"
    /\ result_d = 1
    /\ result_c = NoResult

\* ------------------------------------------------- the Huffman code table
\* The tree of a frequency table and the codes generate_codes stores for it
\* under the depth limit of the goal.  The loops and the recursion are taken
\* one iteration and one call at a time: lf holds the table, the heap, the
\* arena of nodes, the pending calls of generate_codes and the code table.

\* 1, 1, 2, 3, 5, ...: with these frequencies every merge joins the tree
\* built so far with one more leaf, so k characters give a tree of depth
\* k - 1
RECURSIVE Fibonacci(_, _, _)
Fibonacci(n, a, b) == IF n <= 1 THEN a ELSE Fibonacci(n - 1, b, a + b)

\* tables of up to MaxFewSymbols characters with counts up to MaxCount, and
\* the Fibonacci tables of MinDeepSymbols..MaxDeepSymbols characters from
\* FirstDeepChar on
MaxFewSymbols == 3
MaxCount == 2
MinDeepSymbols == 32
MaxDeepSymbols == 34
FirstDeepChar == 100
FewTables ==
    {f \in [0..(MaxFewSymbols - 1) -> 0..MaxCount] : \E c \in DOMAIN f : f[c] > 0}
DeepTable(k) == [c \in FirstDeepChar..(FirstDeepChar + k - 1) |->
                    Fibonacci(c - FirstDeepChar + 1, 1, 1)]
FrequencyTables == FewTables \cup {DeepTable(k) : k \in MinDeepSymbols..MaxDeepSymbols}

Counted(freq) == {c \in DOMAIN freq : freq[c] > 0}

InitCodes ==
    /\ \E freq \in FrequencyTables :
          lf = [frequency |-> freq, pending |-> Counted(freq), nodes |-> <<>>, arr |-> <<>>,
                phase |-> "start", calls |-> <<>>, codes |-> NoCodes]
    /\ GlobalsIdle
    /\ algorithm = HUFFMAN
    /\ opt_goal \in OptimizationGoal
    /\ in_file = <<>>
    /\ packed_file = NoFile
    /\ out_file = NoFile
    /\ result_c = NoResult
    /\ result_d = NoResult
    /\ stage = "input"
    /\ ParallelIdle
    /\ ProgressiveIdle
    /\ SplitIdle
    /\ DedupIdle
    /\ MainIdle

\* set_huffman_optimization(get_optimization_goal())
SetHuffmanOptimization ==
    /\ lf.phase = "start"
    /\ lf' = [lf EXCEPT !.phase = "heap"]
    /\ codec_globals' = StoreOptimization(codec_globals, HUFFMAN, opt_goal, 0)
    /\ UNCHANGED codecVars
    /\ UNCHANGED <<parallelVars, progressiveVars, splitVars, dedupVars, mainVars>>

\* one iteration of the insert loop of build_huffman_tree_from_freq
InsertCharacter ==
    /\ lf.phase = "heap"
    /\ lf.pending # {}
    /\ \E c \in {SetMin(lf.pending)} :
        \E nodes2 \in {Append(lf.nodes, create_node(c, lf.frequency[c]))} :
          lf' = [lf EXCEPT !.pending = @ \ {c},
                           !.nodes = nodes2,
                           !.arr = insert_min_heap(nodes2, @, Len(nodes2))]
    /\ UNCHANGED codecVars
    /\ UNCHANGED notLargeVars

\* one iteration of the merge loop
MergeOnce(nodes, arr) ==
    LET e1 == extract_min(nodes, arr)
        e2 == extract_min(nodes, e1.arr)
        top == [create_node(DollarChar,
                            nodes[e1.node].frequency + nodes[e2.node].frequency)
                EXCEPT !.left = e1.node, !.right = e2.node]
        nodes2 == Append(nodes, top)
    IN [nodes |-> nodes2, arr |-> insert_min_heap(nodes2, e2.arr, Len(nodes2))]

MergeNodes ==
    /\ lf.phase = "heap"
    /\ lf.pending = {}
    /\ Len(lf.arr) > 1
    /\ \E r \in {MergeOnce(lf.nodes, lf.arr)} :
          lf' = [lf EXCEPT !.nodes = r.nodes, !.arr = r.arr]
    /\ UNCHANGED codecVars
    /\ UNCHANGED notLargeVars

\* the tree is complete (a lone character hangs to the left of a fresh
\* root): generate_codes(root, code, 0, codes) is called
CallGenerateCodes ==
    /\ lf.phase = "heap"
    /\ lf.pending = {}
    /\ Len(lf.arr) = 1
    /\ IF Len(lf.nodes) = 1
       THEN lf' = [lf EXCEPT
                     !.nodes = Append(@, [create_node(DollarChar, lf.nodes[1].frequency)
                                          EXCEPT !.left = 1]),
                     !.arr = <<2>>,
                     !.phase = "codes",
                     !.calls = <<[root |-> 2, code |-> <<>>, at |-> "left"]>>]
       ELSE lf' = [lf EXCEPT
                     !.phase = "codes",
                     !.calls = <<[root |-> lf.arr[1], code |-> <<>>, at |-> "left"]>>]
    /\ UNCHANGED codecVars
    /\ UNCHANGED notLargeVars

\* the innermost pending call of generate_codes runs its next part: the
\* test of the left child, the test of the right child, or the test for a
\* leaf and the return
GenerateCodesStep ==
    /\ lf.phase = "codes"
    /\ \E call \in {lf.calls[Len(lf.calls)]} :
        \E outer \in {SubSeq(lf.calls, 1, Len(lf.calls) - 1)} :
        \E n \in {lf.nodes[call.root]} :
          IF call.at \in {"left", "right"}
          THEN \E child \in {IF call.at = "left" THEN n.left ELSE n.right} :
               \E later \in {Append(outer, [call EXCEPT !.at = IF call.at = "left"
                                                               THEN "right" ELSE "leaf"])} :
                 IF child = 0 THEN lf' = [lf EXCEPT !.calls = later]
                 ELSE IF Len(call.code) < codec_globals.MAX_TREE_DEPTH - 1
                 THEN lf' = [lf EXCEPT !.calls =
                                Append(later, [root |-> child,
                                               code |-> Append(call.code,
                                                               IF call.at = "left" THEN 0 ELSE 1),
                                               at |-> "left"])]
                 ELSE lf' = [lf EXCEPT !.calls = later,
                                       !.codes = [@ EXCEPT ![n.character] = call.code]]
          ELSE lf' = [lf EXCEPT
                        !.calls = outer,
                        !.codes = IF n.left = 0 /\ n.right = 0
                                  THEN [@ EXCEPT ![n.character] = call.code] ELSE @,
                        !.phase = IF outer = <<>> THEN "built" ELSE "codes"]
    /\ UNCHANGED codecVars
    /\ UNCHANGED notLargeVars

NextCodes ==
    \/ SetHuffmanOptimization
    \/ InsertCharacter
    \/ MergeNodes
    \/ CallGenerateCodes
    \/ GenerateCodesStep

SpecCodes == InitCodes /\ [][NextCodes]_vars

IsPrefix(s, t) == Len(s) <= Len(t) /\ SubSeq(t, 1, Len(s)) = s

\* C28: in the code table of every frequency table, under each depth limit,
\* no character's code is a prefix of, or equal to, the code of another
\* character of the table
C28_PrefixFree ==
    lf.phase = "built" =>
        \A a, b \in Counted(lf.frequency) :
            a # b => ~IsPrefix(lf.codes[a], lf.codes[b])

\* the table is prefix-free whenever the tree is less deep than the limit:
\* under the limits 256 and 512 always, under 32 for up to MinDeepSymbols
\* characters
C28_PrefixFreeUntruncated ==
    (lf.phase = "built" /\ (opt_goal # OPT_SPEED
                              \/ Cardinality(Counted(lf.frequency)) <= MinDeepSymbols)) =>
        \A a, b \in Counted(lf.frequency) :
            a # b => ~IsPrefix(lf.codes[a], lf.codes[b])

\* taken step by step, the tree and the table of a small frequency table
\* are those of build_huffman_tree_from_freq and generate_codes
C28_StepsAreTheCalls ==
    (lf.phase = "built" /\ lf.frequency \in FewTables) =>
        \E t \in {build_huffman_tree_from_freq(lf.frequency)} :
            /\ lf.nodes = t.nodes
            /\ lf.arr[1] = t.root
            /\ lf.codes = generate_codes(t.nodes, t.root, <<>>, NoCodes,
                                         set_huffman_optimization(opt_goal))

\* a table whose tree is deeper than the limit of OPT_SPEED has its codes
C28_DeepTreeBuilt ==
    /\ lf.phase = "built"
    /\ opt_goal = OPT_SPEED
    /\ Cardinality(Counted(lf.frequency)) > MinDeepSymbols

\* ------------------------------------------------ the LZ77 match tokens
\* compress_lz77_buffer taken one token at a time: lf holds the input, the
\* position in_pos, the bytes written and the token written last.

\* window_start of find_longest_match without the window
WindowStartOfInput(current_pos, P) == 0

\* window_start of find_longest_match
WindowStart(current_pos, P) ==
    IF current_pos <= P.WINDOW_SIZE THEN 0 ELSE current_pos - P.WINDOW_SIZE

\* the body of the window loop for position i: best is the match so far,
\* stopped once the loop was left with break
WindowLoopBody(data, i, current_pos, lookahead_end, best, P) ==
    IF best.stopped \/ data[i + 1] # data[current_pos + 1] THEN best
    ELSE \* current_match_length
         LET len == MatchRun(data, i, current_pos, 0, lookahead_end - current_pos)
         IN IF len >= P.MIN_MATCH /\ len > best.length
            THEN [offset |-> (current_pos - i) % 65536,
                  length |-> Min(len, UINT8_MAX),
                  stopped |-> len >= UINT8_MAX]
            ELSE best

\* the window loop over i = lo..hi-1, halved so that a window of thousands
\* of positions is walked without deep recursion
RECURSIVE WindowLoop(_, _, _, _, _, _, _)
WindowLoop(data, lo, hi, current_pos, lookahead_end, best, P) ==
    IF lo >= hi THEN best
    ELSE IF hi - lo = 1 THEN WindowLoopBody(data, lo, current_pos, lookahead_end, best, P)
    ELSE LET sofar == WindowLoop(data, lo, (lo + hi) \div 2, current_pos,
                                 lookahead_end, best, P)
         IN IF sofar.stopped THEN sofar
            ELSE WindowLoop(data, (lo + hi) \div 2, hi, current_pos, lookahead_end,
                            sofar, P)

\* find_longest_match with the window loop above
LongestMatch(data, current_pos, P) ==
    IF current_pos + P.MIN_MATCH > Len(data) THEN [offset |-> 0, length |-> 0]
    ELSE LET found == WindowLoop(data, WindowStart(current_pos, P), current_pos,
                                 current_pos,
                                 Min(current_pos + P.LOOKAHEAD_SIZE, Len(data)),
                                 [offset |-> 0, length |-> 0, stopped |-> FALSE], P)
         IN [offset |-> found.offset, length |-> found.length]

\* short inputs of up to MaxMatchInput bytes, and for each window size W
\* the inputs Mark, filler, Mark in which the second Mark lies W - WindowSlack
\* to W + WindowSlack bytes after the first; the filler has the period
\* FillerPeriod and none of the bytes of Mark
MaxMatchInput == 6
WindowSlack == 1
FillerPeriod == 200
FirstFillerByte == 10
Mark == <<1, 2, 3, 4, 5>>
Filler(n) == [i \in 1..n |-> FirstFillerByte + (i % FillerPeriod)]
MarkedInput(distance) == Mark \o Filler(distance - Len(Mark)) \o Mark
MatchInputs(P) ==
    SeqsUpTo(Alphabet, MaxMatchInput)
        \cup {MarkedInput(P.WINDOW_SIZE + d) : d \in (0 - WindowSlack)..WindowSlack}

NoToken == [in_pos |-> 0 - 1, bytes |-> <<>>]

InitMatch ==
    /\ algorithm = LZ77
    /\ opt_goal \in OptimizationGoal
    /\ \E input \in MatchInputs(set_lz77_optimization(opt_goal)) :
          lf = [input |-> input, in_pos |-> 0, out |-> <<>>, last |-> NoToken,
                rc |-> NoResult, phase |-> "start"]
    /\ GlobalsIdle
    /\ in_file = <<>>
    /\ packed_file = NoFile
    /\ out_file = NoFile
    /\ result_c = NoResult
    /\ result_d = NoResult
    /\ stage = "input"
    /\ ParallelIdle
    /\ ProgressiveIdle
    /\ SplitIdle
    /\ DedupIdle
    /\ MainIdle

\* compress_lz77 up to the call of compress_lz77_buffer
SetLz77Optimization ==
    /\ lf.phase = "start"
    /\ codec_globals' = StoreOptimization(codec_globals, LZ77, opt_goal, 0)
    /\ lf' = IF Len(lf.input) = 0 THEN [lf EXCEPT !.phase = "returned", !.rc = 1]
             ELSE [lf EXCEPT !.phase = "tokens"]
    /\ UNCHANGED codecVars
    /\ UNCHANGED <<parallelVars, progressiveVars, splitVars, dedupVars, mainVars>>

\* one iteration of the token loop; the capacity of the output buffer is
\* twice the input size
WriteToken ==
    /\ lf.phase = "tokens"
    /\ lf.in_pos < Len(lf.input)
    /\ \E m \in {LongestMatch(lf.input, lf.in_pos, codec_globals.lz77)} :
          IF Len(lf.out) + 4 > 2 * Len(lf.input)
          THEN lf' = [lf EXCEPT !.phase = "returned", !.rc = 1]
          ELSE IF m.length >= codec_globals.lz77.MIN_MATCH
          THEN \E bytes \in {<<1, (m.offset \div 256) % 256, m.offset % 256, m.length>>} :
                 lf' = [lf EXCEPT !.out = @ \o bytes,
                                  !.last = [in_pos |-> lf.in_pos, bytes |-> bytes],
                                  !.in_pos = @ + m.length]
          ELSE \E bytes \in {<<0, lf.input[lf.in_pos + 1]>>} :
                 lf' = [lf EXCEPT !.out = @ \o bytes,
                                  !.last = [in_pos |-> lf.in_pos, bytes |-> bytes],
                                  !.in_pos = @ + 1]
    /\ UNCHANGED codecVars
    /\ UNCHANGED notLargeVars

\* the loop ends: *output_size = out_pos; return 0
ReturnTokens ==
    /\ lf.phase = "tokens"
    /\ lf.in_pos >= Len(lf.input)
    /\ lf' = [lf EXCEPT !.phase = "returned", !.rc = 0]
    /\ UNCHANGED codecVars
    /\ UNCHANGED notLargeVars

NextMatch == SetLz77Optimization \/ WriteToken \/ ReturnTokens

SpecMatch == InitMatch /\ [][NextMatch]_vars

\* the token written last is a match token; its fields as a decoder reads
\* them
MatchWritten == lf.last.bytes # <<>> /\ lf.last.bytes[1] = 1
LastOffset == lf.last.bytes[2] * 256 + lf.last.bytes[3]
LastLength == lf.last.bytes[4]

\* the length of the match at window position i for the token written last
LengthAt(i) ==
    MatchRun(lf.input, i, lf.last.in_pos, 0,
             Min(lf.last.in_pos + codec_globals.lz77.LOOKAHEAD_SIZE, Len(lf.input))
                 - lf.last.in_pos)
LastWindow == WindowStart(lf.last.in_pos, codec_globals.lz77)..(lf.last.in_pos - 1)

\* C29: every match token written has a length of at least MIN_MATCH and
\* an offset above 0 that reaches neither before the start of the input
\* nor further back than WINDOW_SIZE
C29_MatchTokenBounds ==
    MatchWritten =>
        /\ LastLength >= codec_globals.lz77.MIN_MATCH
        /\ LastOffset > 0
        /\ LastOffset <= lf.last.in_pos
        /\ LastOffset <= codec_globals.lz77.WINDOW_SIZE

\* a match token whose offset is exactly WINDOW_SIZE has been written
C29_MatchAtWindowEdge ==
    /\ MatchWritten
    /\ LastOffset = codec_globals.lz77.WINDOW_SIZE
    /\ LastLength = Len(Mark)

\* C30: of the window positions that give the longest match the token
\* written names the nearest one
C30_NearestOnTies ==
    MatchWritten =>
        \A i \in LastWindow :
            LengthAt(i) >= LastLength => lf.last.in_pos - i >= LastOffset

\* the token names the longest match of the window, and of the positions
\* that give it the one found first, which is the farthest
C30_FarthestOnTies ==
    MatchWritten =>
        /\ LengthAt(lf.last.in_pos - LastOffset) = LastLength
        /\ \A i \in LastWindow :
              /\ LengthAt(i) <= LastLength
              /\ LengthAt(i) = LastLength => lf.last.in_pos - i <= LastOffset

\* on the short inputs the token is the one find_longest_match of the
\* whole-file codec gives
C29_SameAsWholeFile ==
    (lf.last # NoToken /\ Len(lf.input) <= MaxMatchInput) =>
        \E m \in {find_longest_match(lf.input, lf.last.in_pos, codec_globals.lz77)} :
            IF m.length >= codec_globals.lz77.MIN_MATCH
            THEN MatchWritten /\ LastOffset = m.offset /\ LastLength = m.length
            ELSE ~MatchWritten

====
